---- MODULE Spec2Model ----
\* NativeSpark AI: state-machine models of the browser-side modules
\* (Translator, PageConnectionManager, Dictionary, ProgressTracker,
\* TranslationWidget, AIAssistant).  Each class is an independent object;
\* it gets its own variables, its own next-state relation and its own
\* specification, all over one common variable tuple.
\*
\* JavaScript is single threaded: a handler runs without interruption up
\* to its next `await`, so one action is one such synchronous stretch.
\* Strings are sequences of one-character strings; "q" stands for a
\* double quote and " " for white space.
EXTENDS Integers, Sequences, FiniteSets, TLC

VARIABLES
    translator_isProcessing,   \* Translator.isProcessing
    translator_cache,          \* Translator.cache: cacheKey -> result
    translator_calls,          \* the translate() calls of the batch in flight
    translator_batch,          \* the translateBatch() call in flight / resolved
    translator_fetches         \* number of API requests issued so far

translatorVars == <<translator_isProcessing, translator_cache, translator_calls,
                    translator_batch, translator_fetches>>

VARIABLES
    fb_user,                   \* the user Firebase Auth holds signed in
    fb_pendingReport,          \* Firebase owes its listeners a state report
    auth_currentUser,          \* FirebaseAuthManager.currentUser
    auth_lastAuthState,        \* FirebaseAuthManager.lastAuthState
    pm_currentPage,            \* PageConnectionManager.currentPage
    pm_navigationHistory,      \* PageConnectionManager.navigationHistory (pages)
    pm_loads,                  \* loadPage() calls awaiting their fetch
    pm_profileLoading,         \* auth callbacks awaiting loadUserProfile()
    pm_content,                \* the html file shown in the content area
    pm_lastLoad,               \* the last page loadPage put into the content area
    pm_pushed,                 \* pages of the window.history entries pushed
    pm_location                \* the document the browser shows

pmVars == <<fb_user, fb_pendingReport, auth_currentUser, auth_lastAuthState,
            pm_currentPage, pm_navigationHistory, pm_loads, pm_profileLoading,
            pm_content, pm_lastLoad, pm_pushed, pm_location>>

VARIABLES
    dict_cache,                \* Dictionary.cache: cacheKey -> {data, timestamp}
    dict_isProcessing,         \* Dictionary.isProcessing
    dict_now,                  \* Date.now(), in milliseconds since construction
    dict_pending,              \* the lookup() awaiting the answer to its AI query
    dict_ret,                  \* how the most recent lookup() call began
    dict_last                  \* how the most recently settled lookup() ended

dictVars == <<dict_cache, dict_isProcessing, dict_now, dict_pending, dict_ret,
              dict_last>>

VARIABLES
    pt_modules,                \* ProgressTracker.modules: completed, progress
    pt_currentUser,            \* ProgressTracker.currentUser
    pt_userId,                 \* ProgressTracker.userId
    pt_initialized,            \* ProgressTracker.initialized
    pt_session,                \* sessionStorage item 'learningProgress'
    pt_docs,                   \* Firestore collection userProgress
    pt_firebase,               \* window.auth, window.db, ... are available
    pt_authWait,               \* initializeAuth: "polling", "listening", "timeout"
    pt_fbUser,                 \* the user Firebase Auth holds signed in
    pt_fbPending,              \* Firebase owes the tracker a state report
    pt_loads,                  \* loadProgress() calls awaiting Firestore
    pt_op,                     \* the updateModuleProgress / markComplete /
                               \* resetProgress call made last
    pt_init,                   \* the initialize() call made last
    pt_progressText,           \* #overallProgress, set by updateProgressBar
    pt_menu                    \* #progressMenu: the percentage it shows

ptVars == <<pt_modules, pt_currentUser, pt_userId, pt_initialized, pt_session,
            pt_docs, pt_firebase, pt_authWait, pt_fbUser, pt_fbPending, pt_loads,
            pt_op, pt_init, pt_progressText, pt_menu>>

VARIABLES
    ai_apiProvider,            \* AIAssistant.apiProvider
    ai_isProcessing,           \* AIAssistant.isProcessing
    ai_conversationHistory,    \* AIAssistant.conversationHistory
    ai_inflight,               \* provider queries of sendMessage() in flight
    ai_ret,                    \* what the sendMessage() that returned last returned
    ai_tests,                  \* testConnection() calls awaiting sendMessage()
    ai_testRet                 \* what the testConnection() that returned last returned

aiVars == <<ai_apiProvider, ai_isProcessing, ai_conversationHistory, ai_inflight,
            ai_ret, ai_tests, ai_testRet>>

VARIABLES
    tw_currentAPIIndex,        \* TranslationWidget.currentAPIIndex
    tw_translationCache,       \* TranslationWidget.translationCache
    tw_calls,                  \* translateWithFallback() calls awaiting an API
    tw_ret                     \* the translateWithFallback() that resolved last

twVars == <<tw_currentAPIIndex, tw_translationCache, tw_calls, tw_ret>>

VARIABLES
    up_fbUser,                 \* the user Firebase has signed in
    up_report,                 \* the auth listener is due a call
    up_google,                 \* signInWithGoogle is due its continuation
    up_currentUser,            \* FirebaseAuthManager.currentUser
    up_lastAuthState,          \* FirebaseAuthManager.lastAuthState
    up_isInitializing,         \* FirebaseAuthManager.isInitializing
    up_handlers,               \* handleUserSignIn() calls in flight
    up_doc,                    \* the Firestore document users/<uid>
    up_lastWrite,              \* the write to that document made last
    up_profileLoads,           \* loadUserProfile() calls in flight
    up_userProfile,            \* PageConnectionManager.userProfile
    up_saves                   \* saveProfile() / initializeModules() in flight

upVars == <<up_fbUser, up_report, up_google, up_currentUser, up_lastAuthState,
            up_isInitializing, up_handlers, up_doc, up_lastWrite, up_profileLoads,
            up_userProfile, up_saves>>

VARIABLES
    wp_nodes,                  \* textContent of the page's text nodes
    wp_isTranslated,           \* TranslationWidget.isTranslated
    wp_originalContent,        \* TranslationWidget.originalContent
    wp_translating,            \* a translatePage() call is in flight
    wp_pending,                \* nodes waiting for translateWithFallback
    wp_nextBatch,              \* first node of the batch after this one
    wp_before,                 \* textContent when translatePage was called
    wp_altered                 \* nodes whose text the translation replaced

wpVars == <<wp_nodes, wp_isTranslated, wp_originalContent, wp_translating,
            wp_pending, wp_nextBatch, wp_before, wp_altered>>

VARIABLES
    ap_sessionScore,           \* AIPracticeMode.sessionScore
    ap_sessionQuestions,       \* AIPracticeMode.sessionQuestions
    ap_button,                 \* which of checkAnswerBtn / nextQuestionBtn can be used
    ap_feedbackArea,           \* the title shown in #feedbackArea
    ap_checks,                 \* checkAnswer() calls waiting for getAIFeedback
    ap_last                    \* what the checkAnswer() that ended last did

apVars == <<ap_sessionScore, ap_sessionQuestions, ap_button, ap_feedbackArea,
            ap_checks, ap_last>>

VARIABLES
    lj_doc,                    \* the Firestore document userJourneys/<userId>
    lj_calls,                  \* updateLessonCompletion() calls in flight
    lj_version,                \* how many times the document was written
    lj_started,                \* how many calls were made
    lj_returned                \* the calls that returned success

ljVars == <<lj_doc, lj_calls, lj_version, lj_started, lj_returned>>

vars == <<translatorVars, pmVars, dictVars, ptVars, aiVars, twVars, upVars,
          wpVars, apVars, ljVars>>

\* what the actions of one object leave alone
notTranslator == <<pmVars, dictVars, ptVars, aiVars, twVars, upVars, wpVars, apVars, ljVars>>
notPM == <<translatorVars, dictVars, ptVars, aiVars, twVars, upVars, wpVars, apVars, ljVars>>
notDict == <<translatorVars, pmVars, ptVars, aiVars, twVars, upVars, wpVars, apVars, ljVars>>
notPT == <<translatorVars, pmVars, dictVars, aiVars, twVars, upVars, wpVars, apVars, ljVars>>
notAI == <<translatorVars, pmVars, dictVars, ptVars, twVars, upVars, wpVars, apVars, ljVars>>
notTW == <<translatorVars, pmVars, dictVars, ptVars, aiVars, upVars, wpVars, apVars, ljVars>>
notUP == <<translatorVars, pmVars, dictVars, ptVars, aiVars, twVars, wpVars, apVars, ljVars>>
notWidget == <<translatorVars, pmVars, dictVars, ptVars, aiVars, upVars, apVars, ljVars>>
notAP == <<translatorVars, pmVars, dictVars, ptVars, aiVars, twVars, upVars, wpVars, ljVars>>
notLJ == <<translatorVars, pmVars, dictVars, ptVars, aiVars, twVars, upVars, wpVars, apVars>>

\* ---------------------------------------------------------------------
\* Strings
\* ---------------------------------------------------------------------
RECURSIVE TrimLeft(_)
TrimLeft(s) == IF s # <<>> /\ Head(s) = " " THEN TrimLeft(Tail(s)) ELSE s

RECURSIVE TrimRight(_)
TrimRight(s) ==
    IF s # <<>> /\ s[Len(s)] = " " THEN TrimRight(SubSeq(s, 1, Len(s) - 1)) ELSE s

\* String.prototype.trim
Trim(s) == TrimRight(TrimLeft(s))

IsQuote(c) == c = "q"
NotQuote(c) == ~IsQuote(c)

\* translation.replace(/["""]/g, '')
StripQuotes(s) == SelectSeq(s, NotQuote)

None == <<"none">>

\* ---------------------------------------------------------------------
\* Translator (src/js/page-connection.js)
\* ---------------------------------------------------------------------
MaxBatch == 3
MaxFetches == 4

Texts == {<<"a">>, <<"b">>, <<" ">>}
TargetLangs == {"ta", "hi"}

\* What the translation API answers for a text: the translation, possibly
\* wrapped in quotes or white space by the language model.
AnswerStyles == { "plain", "quoted", "spaced" }

ApiAnswer(style, text) ==
    IF style = "plain" THEN <<"T">> \o text
    ELSE IF style = "quoted" THEN <<"q", "T">> \o text \o <<"q">>
    ELSE <<" ", "T">> \o text

\* `${text}-${sourceLang}-${targetLang}`
CacheKey(text, sourceLang, targetLang) ==
    text \o <<"-", sourceLang, "-", targetLang>>

TranslateResult(text, translation, sourceLang, targetLang) ==
    [original |-> text, translated |-> Trim(StripQuotes(translation)),
     sourceLang |-> sourceLang, targetLang |-> targetLang,
     confidence |-> 95, error |-> FALSE]

TranslateFallback(text, sourceLang, targetLang) ==
    [original |-> text, translated |-> text,
     sourceLang |-> sourceLang, targetLang |-> targetLang,
     confidence |-> 0, error |-> TRUE]

\* The synchronous part of one translate(text, ...) call, started with the
\* given isProcessing flag: the frame the call is left in.
TranslateStart(text, sourceLang, targetLang, busy, cache) ==
    IF Trim(text) = <<>>
    THEN [text |-> text, pc |-> "threw", result |-> None]
    ELSE IF CacheKey(text, sourceLang, targetLang) \in DOMAIN cache
    THEN [text |-> text, pc |-> "done",
          result |-> cache[CacheKey(text, sourceLang, targetLang)]]
    ELSE IF busy
    THEN [text |-> text, pc |-> "busy", result |-> None]
    ELSE [text |-> text, pc |-> "fetch", result |-> None]

\* texts.map(text => this.translate(...)): the calls start one after the
\* other, each running up to its first await.
RECURSIVE MapTranslate(_, _, _, _, _)
MapTranslate(texts, sourceLang, targetLang, busy, cache) ==
    IF texts = <<>> THEN <<>>
    ELSE LET f == TranslateStart(Head(texts), sourceLang, targetLang, busy, cache)
         IN <<f>> \o MapTranslate(Tail(texts), sourceLang, targetLang,
                                  busy \/ f.pc = "fetch", cache)

BatchInputs == UNION { [1..n -> Texts] : n \in 1..MaxBatch }

NoBatch == [state |-> "none"]

\* The caller starts a batch once the requests of the previous one settled.
TranslateBatch(texts, targetLang) ==
    /\ translator_batch.state # "pending"
    /\ \A i \in DOMAIN translator_calls : translator_calls[i].pc \in {"done", "threw"}
    /\ LET frames == MapTranslate(texts, "en", targetLang,
                                  translator_isProcessing, translator_cache)
           issued == Cardinality({i \in DOMAIN frames : frames[i].pc = "fetch"})
       IN /\ translator_fetches + issued <= MaxFetches
          /\ translator_calls' = frames
          /\ translator_isProcessing' = (translator_isProcessing \/ issued > 0)
          /\ translator_fetches' = translator_fetches + issued
          /\ translator_batch' =
                [state |-> "pending", texts |-> texts, targetLang |-> targetLang,
                 uncached |-> \A i \in DOMAIN texts :
                     CacheKey(texts[i], "en", targetLang) \notin DOMAIN translator_cache,
                 apiFailed |-> FALSE, answers |-> [i \in DOMAIN texts |-> None],
                 results |-> <<>>]
    /\ UNCHANGED translator_cache
    /\ UNCHANGED notTranslator

\* queryAI: the fetch answers with a well-formed completion.
QueryAIResponse(i, style) ==
    /\ i \in DOMAIN translator_calls
    /\ translator_calls[i].pc = "fetch"
    /\ LET b == translator_batch
           answer == ApiAnswer(style, translator_calls[i].text)
           r == TranslateResult(translator_calls[i].text, Trim(answer), "en", b.targetLang)
       IN /\ translator_calls' = [translator_calls EXCEPT ![i].pc = "done", ![i].result = r]
          /\ translator_cache' =
                [k \in DOMAIN translator_cache \cup {CacheKey(r.original, "en", b.targetLang)} |->
                    IF k = CacheKey(r.original, "en", b.targetLang) THEN r ELSE translator_cache[k]]
          /\ translator_batch' = [b EXCEPT !.answers[i] = answer]
    /\ translator_isProcessing' = FALSE
    /\ UNCHANGED translator_fetches
    /\ UNCHANGED notTranslator

\* queryAI: network error, !response.ok or malformed body; finally resets
\* isProcessing and translate's catch returns the fallback.
QueryAIError(i) ==
    /\ i \in DOMAIN translator_calls
    /\ translator_calls[i].pc = "fetch"
    /\ translator_calls' = [translator_calls EXCEPT ![i].pc = "done",
            ![i].result = TranslateFallback(translator_calls[i].text, "en",
                                            translator_batch.targetLang)]
    /\ translator_batch' = [translator_batch EXCEPT !.apiFailed = TRUE]
    /\ translator_isProcessing' = FALSE
    /\ UNCHANGED <<translator_cache, translator_fetches>>
    /\ UNCHANGED notTranslator

\* queryAI threw 'Translator is busy' before its try block: translate's
\* catch returns the fallback and isProcessing is left alone.
QueryAIBusy(i) ==
    /\ i \in DOMAIN translator_calls
    /\ translator_calls[i].pc = "busy"
    /\ translator_calls' = [translator_calls EXCEPT ![i].pc = "done",
            ![i].result = TranslateFallback(translator_calls[i].text, "en",
                                            translator_batch.targetLang)]
    /\ UNCHANGED <<translator_isProcessing, translator_cache, translator_batch,
                   translator_fetches>>
    /\ UNCHANGED notTranslator

\* Promise.all: rejects if a translate() rejected, resolves with the
\* results in input order when all are fulfilled.
BatchSettle ==
    /\ translator_batch.state = "pending"
    /\ \/ /\ \E i \in DOMAIN translator_calls : translator_calls[i].pc = "threw"
          /\ translator_batch' = [translator_batch EXCEPT !.state = "rejected"]
       \/ /\ \A i \in DOMAIN translator_calls : translator_calls[i].pc = "done"
          /\ translator_batch' = [translator_batch EXCEPT !.state = "resolved",
                !.results = [i \in DOMAIN translator_calls |-> translator_calls[i].result]]
    /\ UNCHANGED <<translator_isProcessing, translator_cache, translator_calls,
                   translator_fetches>>
    /\ UNCHANGED notTranslator

InitTranslator ==
    /\ translator_isProcessing = FALSE
    /\ translator_cache = <<>>
    /\ translator_calls = <<>>
    /\ translator_batch = NoBatch
    /\ translator_fetches = 0

NextTranslator ==
    \/ \E texts \in BatchInputs, t \in TargetLangs : TranslateBatch(texts, t)
    \/ \E i \in 1..MaxBatch : \E style \in AnswerStyles : QueryAIResponse(i, style)
    \/ \E i \in 1..MaxBatch : QueryAIError(i)
    \/ \E i \in 1..MaxBatch : QueryAIBusy(i)
    \/ BatchSettle


\* ---------------------------------------------------------------------
\* PageConnectionManager and FirebaseAuthManager (src/js/page-connection.js)
\* ---------------------------------------------------------------------
MaxHistory == 3
MaxLoads == 1

NoUser == "null"
Users == {"u1"}

\* The last path segment of a url, as name and extension.
Urls == { <<"results", ".html">>, <<"botinteraction", ".html">> }

\* path.split('/').pop().replace('.html', '') || 'home'
extractPageFromUrl(url) ==
    LET name == SelectSeq(url, LAMBDA t : t # ".html")
    IN IF name = <<>> \/ name[1] = "" THEN "home" ELSE name[1]

\* goBack hands navigateTo a page name as url
PageAsUrl(page) == IF page = "" THEN <<>> ELSE <<page>>

requiresAuthentication(page) == page # "botinteraction"

isAuthenticated == auth_currentUser # NoUser

\* fetchPageContent: pageMap[page] || pageMap['home']
fetchPageContent(page) ==
    CASE page = "home" -> "home-ai.html"
      [] page = "alphabets" -> "alphabets-ai.html"
      [] page = "vocabulary" -> "vocabulary-ai.html"
      [] page = "grammar" -> "grammar-ai.html"
      [] page = "assessment" -> "final-assessment-ai.html"
      [] page = "results" -> "results.html"
      [] page = "profile" -> "botinteraction.html"
      [] OTHER -> "home-ai.html"

\* the load that completed last; visited is the pages navigateTo has
\* loaded since the document began, in order, and backs the number of
\* goBack calls that have completed since the last of them
NoLoad == [page |-> "none", authenticated |-> FALSE, trigger |-> "none",
           visited |-> <<>>, backs |-> 0]

InitPM ==
    /\ fb_user = NoUser
    /\ fb_pendingReport = TRUE
    /\ auth_currentUser = NoUser
    /\ auth_lastAuthState = NoUser
    /\ pm_currentPage = ""
    /\ pm_navigationHistory = <<>>
    /\ pm_loads = <<>>
    /\ pm_profileLoading = 0
    /\ pm_content = "initial"
    /\ pm_lastLoad = NoLoad
    /\ pm_pushed = {}
    /\ pm_location = "app"

\* redirectToAuth: window.location.href = '../pages/botinteraction.html'.
\* The document is replaced; the scripts of the new document start from
\* their constructors and Firebase reports its state to the new listener.
redirectToAuth ==
    /\ fb_pendingReport' = TRUE
    /\ auth_currentUser' = NoUser
    /\ auth_lastAuthState' = NoUser
    /\ pm_currentPage' = ""
    /\ pm_navigationHistory' = <<>>
    /\ pm_loads' = <<>>
    /\ pm_profileLoading' = 0
    /\ pm_content' = "botinteraction.html"
    /\ pm_lastLoad' = NoLoad
    /\ pm_pushed' = {}
    /\ pm_location' = "botinteraction.html"
    /\ UNCHANGED fb_user

\* navigateTo(url) up to `await this.loadPage(...)`; trigger tells who
\* called it.
navigateTo(url, trigger) ==
    LET targetPage == extractPageFromUrl(url)
        history == Append(pm_navigationHistory, pm_currentPage)
    IN IF requiresAuthentication(targetPage) /\ ~isAuthenticated
       THEN redirectToAuth
       ELSE /\ pm_navigationHistory' = history
            /\ pm_loads' = Append(pm_loads,
                    [page |-> targetPage, trigger |-> trigger, push |-> TRUE])
            /\ UNCHANGED <<fb_user, fb_pendingReport, auth_currentUser,
                           auth_lastAuthState, pm_currentPage, pm_profileLoading,
                           pm_content, pm_lastLoad, pm_pushed, pm_location>>

\* a click on an a[data-internal] link, or a direct call
NavigateTo(url) ==
    /\ Len(pm_navigationHistory) < MaxHistory
    /\ Len(pm_loads) < MaxLoads
    /\ navigateTo(url, "navigateTo")
    /\ UNCHANGED notPM

goBack ==
    /\ Len(pm_loads) < MaxLoads
    /\ pm_navigationHistory # <<>>
    /\ LET n == Len(pm_navigationHistory)
           previous == pm_navigationHistory[n]
           popped == SubSeq(pm_navigationHistory, 1, n - 1)
           targetPage == extractPageFromUrl(PageAsUrl(previous))
       IN IF requiresAuthentication(targetPage) /\ ~isAuthenticated
          THEN redirectToAuth
          ELSE /\ pm_navigationHistory' = Append(popped, pm_currentPage)
               /\ pm_loads' = Append(pm_loads,
                       [page |-> targetPage, trigger |-> "goBack", push |-> TRUE])
               /\ UNCHANGED <<fb_user, fb_pendingReport, auth_currentUser,
                              auth_lastAuthState, pm_currentPage, pm_profileLoading,
                              pm_content, pm_lastLoad, pm_pushed, pm_location>>
    /\ UNCHANGED notPM

\* the pages a history entry can name: those navigateTo pushed, among
\* them 'home-ai' of handleAuthenticatedNavigation, and 'home' for an
\* entry without state
HistoryPages == {"home", "home-ai"} \cup { extractPageFromUrl(url) : url \in Urls }

\* popstate listener: handleNavigationChange(event.state?.page || 'home')
PopState(page) ==
    /\ Len(pm_loads) < MaxLoads
    /\ page \in pm_pushed \cup {"home"}
    /\ pm_loads' = Append(pm_loads,
            [page |-> page, trigger |-> "popstate", push |-> FALSE])
    /\ UNCHANGED <<fb_user, fb_pendingReport, auth_currentUser, auth_lastAuthState,
                   pm_currentPage, pm_navigationHistory, pm_profileLoading,
                   pm_content, pm_lastLoad, pm_pushed, pm_location>>
    /\ UNCHANGED notPM

RemoveAt(s, i) == SubSeq(s, 1, i - 1) \o SubSeq(s, i + 1, Len(s))

\* the visit record after the load l: a navigateTo adds its page, or
\* begins a new record when it follows a goBack; a goBack counts (no
\* further than the record is long); a popstate load starts anew
Visited(l) ==
    IF l.trigger = "navigateTo"
    THEN IF pm_lastLoad.backs > 0 THEN <<l.page>>
         ELSE Append(pm_lastLoad.visited, l.page)
    ELSE IF l.trigger = "goBack" THEN pm_lastLoad.visited
    ELSE <<>>

Backs(l) ==
    IF l.trigger = "goBack"
    THEN IF pm_lastLoad.backs < Len(pm_lastLoad.visited)
         THEN pm_lastLoad.backs + 1 ELSE pm_lastLoad.backs
    ELSE 0

\* loadPage after its fetch: the content area and currentPage are updated
\* when the response is ok, the error state is shown otherwise; then
\* navigateTo, when it made the call, pushes the history entry.
LoadPageDone(i, ok) ==
    /\ i \in DOMAIN pm_loads
    /\ LET l == pm_loads[i] IN
       /\ IF ok
          THEN /\ pm_content' = fetchPageContent(l.page)
               /\ pm_currentPage' = l.page
               /\ pm_lastLoad' = [page |-> l.page, authenticated |-> isAuthenticated,
                                  trigger |-> l.trigger,
                                  visited |-> Visited(l), backs |-> Backs(l)]
          ELSE /\ pm_lastLoad' = [pm_lastLoad EXCEPT !.visited = <<>>, !.backs = 0]
               /\ UNCHANGED <<pm_content, pm_currentPage>>
       /\ pm_pushed' = IF l.push THEN pm_pushed \cup {l.page} ELSE pm_pushed
    /\ pm_loads' = RemoveAt(pm_loads, i)
    /\ UNCHANGED <<fb_user, fb_pendingReport, auth_currentUser, auth_lastAuthState,
                   pm_navigationHistory, pm_profileLoading, pm_location>>
    /\ UNCHANGED notPM

\* Firebase: a user signs in (popup) or out
FirebaseSignIn(u) ==
    /\ fb_user = NoUser
    /\ fb_user' = u
    /\ fb_pendingReport' = TRUE
    /\ UNCHANGED <<auth_currentUser, auth_lastAuthState, pm_currentPage,
                   pm_navigationHistory, pm_loads, pm_profileLoading, pm_content,
                   pm_lastLoad, pm_pushed, pm_location>>
    /\ UNCHANGED notPM

FirebaseSignOut ==
    /\ fb_user # NoUser
    /\ fb_user' = NoUser
    /\ fb_pendingReport' = TRUE
    /\ UNCHANGED <<auth_currentUser, auth_lastAuthState, pm_currentPage,
                   pm_navigationHistory, pm_loads, pm_profileLoading, pm_content,
                   pm_lastLoad, pm_pushed, pm_location>>
    /\ UNCHANGED notPM

\* setupAuthHandling's listener without a user
handleUnauthenticatedNavigation ==
    IF requiresAuthentication(pm_currentPage)
    THEN redirectToAuth
    ELSE /\ fb_pendingReport' = FALSE
         /\ auth_currentUser' = NoUser
         /\ auth_lastAuthState' = NoUser
         /\ UNCHANGED <<fb_user, pm_currentPage, pm_navigationHistory, pm_loads,
                        pm_profileLoading, pm_content, pm_lastLoad, pm_pushed,
                        pm_location>>

\* initializeAuthListener's callback with Firebase's current user, and the
\* listeners notifyAuthStateChange calls when the user changed
AuthStateReport ==
    /\ fb_pendingReport
    /\ pm_profileLoading < MaxLoads
    /\ LET user == fb_user
           userChanged == auth_lastAuthState # user
       IN IF ~userChanged
          THEN /\ fb_pendingReport' = FALSE
               /\ UNCHANGED <<fb_user, auth_currentUser, auth_lastAuthState,
                              pm_currentPage, pm_navigationHistory, pm_loads,
                              pm_profileLoading, pm_content, pm_lastLoad, pm_pushed,
                              pm_location>>
          ELSE IF user # NoUser
          THEN /\ fb_pendingReport' = FALSE
               /\ auth_lastAuthState' = user
               /\ auth_currentUser' = user
               /\ pm_profileLoading' = pm_profileLoading + 1
               /\ UNCHANGED <<fb_user, pm_currentPage, pm_navigationHistory,
                              pm_loads, pm_content, pm_lastLoad, pm_pushed,
                              pm_location>>
          ELSE handleUnauthenticatedNavigation
    /\ UNCHANGED notPM

\* the listener after `await this.loadUserProfile()`
handleAuthenticatedNavigation ==
    /\ pm_profileLoading > 0
    /\ IF pm_currentPage = "botinteraction"
       THEN /\ Len(pm_navigationHistory) < MaxHistory
            /\ Len(pm_loads) < MaxLoads
            /\ IF ~isAuthenticated
               THEN redirectToAuth
               ELSE /\ pm_navigationHistory' =
                            Append(pm_navigationHistory, pm_currentPage)
                    /\ pm_loads' = Append(pm_loads,
                            [page |-> extractPageFromUrl(<<"home-ai", ".html">>),
                             trigger |-> "navigateTo", push |-> TRUE])
                    /\ pm_profileLoading' = pm_profileLoading - 1
                    /\ UNCHANGED <<fb_user, fb_pendingReport, auth_currentUser,
                                   auth_lastAuthState, pm_currentPage, pm_content,
                                   pm_lastLoad, pm_pushed, pm_location>>
       ELSE /\ pm_profileLoading' = pm_profileLoading - 1
            /\ UNCHANGED <<fb_user, fb_pendingReport, auth_currentUser,
                           auth_lastAuthState, pm_currentPage, pm_navigationHistory,
                           pm_loads, pm_content, pm_lastLoad, pm_pushed, pm_location>>
    /\ UNCHANGED notPM

NextPM ==
    \/ \E url \in Urls : NavigateTo(url)
    \/ goBack
    \/ \E page \in HistoryPages : PopState(page)
    \/ \E i \in 1..MaxLoads : \E ok \in BOOLEAN : LoadPageDone(i, ok)
    \/ \E u \in Users : FirebaseSignIn(u)
    \/ FirebaseSignOut
    \/ AuthStateReport
    \/ handleAuthenticatedNavigation


\* ---------------------------------------------------------------------
\* Dictionary (src/js/page-connection.js)
\* ---------------------------------------------------------------------
cacheExpiry == 3600000

\* The clock is advanced by a millisecond or by an hour; MaxHours and
\* MaxMillis bound how often.
MaxHours == 2
MaxMillis == 1

Words == { <<"a">>, <<" ", "a">>, <<" ">> }
LangPairs == { <<"en", "ta">>, <<"ta", "en">> }
DictAnswers == { "x", "y" }

NoCall == [key |-> None]

\* null, where a result object is expected
NoResult == [null |-> TRUE]

\* parseAIResponse: the structured result (the fields drawn from the answer
\* are one field here)
parseAIResponse(aiResponse, word, sourceLang, targetLang, now) ==
    [word |-> word, sourceLang |-> sourceLang, targetLang |-> targetLang,
     translation |-> aiResponse, timestamp |-> now]

\* a getFromCache that returns whatever entry it finds, however old
getFromCacheWhateverAge(cache, key, now) ==
    IF key \notin DOMAIN cache THEN NoResult ELSE cache[key].data

\* getFromCache(key): the value returned
getFromCache(cache, key, now) ==
    IF key \notin DOMAIN cache THEN NoResult
    ELSE IF now - cache[key].timestamp > cacheExpiry THEN NoResult
    ELSE cache[key].data

\* getFromCache(key): the cache it leaves
cacheAfterGet(cache, key, now) ==
    IF key \in DOMAIN cache /\ now - cache[key].timestamp > cacheExpiry
    THEN [k \in DOMAIN cache \ {key} |-> cache[k]]
    ELSE cache

saveToCache(cache, key, data, now) ==
    [k \in DOMAIN cache \cup {key} |->
        IF k = key THEN [data |-> data, timestamp |-> now] ELSE cache[k]]

InitDict ==
    /\ dict_cache = <<>>
    /\ dict_isProcessing = FALSE
    /\ dict_now = 0
    /\ dict_pending = NoCall
    /\ dict_ret = [n |-> 0, key |-> None, outcome |-> "none", result |-> NoResult,
                   entry |-> "none"]
    /\ dict_last = [n |-> 0, key |-> None, outcome |-> "none"]

Flip(n) == 1 - n

DictTick(d) ==
    /\ \/ d = 1 /\ dict_now % cacheExpiry < MaxMillis
       \/ d = cacheExpiry /\ dict_now \div cacheExpiry < MaxHours
    /\ dict_now' = dict_now + d
    /\ UNCHANGED <<dict_cache, dict_isProcessing, dict_pending, dict_ret, dict_last>>
    /\ UNCHANGED notDict

\* what the cache holds under key when a lookup begins
EntryFound(key) ==
    IF key \notin DOMAIN dict_cache THEN "none"
    ELSE IF dict_now - dict_cache[key].timestamp > cacheExpiry THEN "expired"
    ELSE "stored"

\* lookup(word, sourceLang, targetLang) up to its await of the AI query,
\* or to its return or throw when it does not get that far
Lookup(word, sourceLang, targetLang) ==
    /\ IF Trim(word) = <<>>
       THEN \* throw new Error('Word cannot be empty')
            /\ dict_ret' = [n |-> Flip(dict_ret.n), key |-> None,
                            outcome |-> "empty", result |-> NoResult,
                            entry |-> "none"]
            /\ dict_last' = [n |-> Flip(dict_last.n), key |-> None, outcome |-> "failed"]
            /\ UNCHANGED <<dict_cache, dict_isProcessing, dict_pending>>
       ELSE LET w == Trim(word)
                cacheKey == CacheKey(w, sourceLang, targetLang)
                cached == getFromCache(dict_cache, cacheKey, dict_now)
            IN /\ dict_cache' = cacheAfterGet(dict_cache, cacheKey, dict_now)
               /\ IF cached # NoResult
                  THEN /\ dict_ret' = [n |-> Flip(dict_ret.n), key |-> cacheKey,
                                       outcome |-> "cached", result |-> cached,
                                       entry |-> EntryFound(cacheKey)]
                       /\ dict_last' = [n |-> Flip(dict_last.n), key |-> cacheKey,
                                        outcome |-> "ok"]
                       /\ UNCHANGED <<dict_isProcessing, dict_pending>>
                  ELSE IF dict_isProcessing
                  THEN \* queryAI: 'Dictionary AI is busy. Please wait...'
                       /\ dict_ret' = [n |-> Flip(dict_ret.n), key |-> cacheKey,
                                       outcome |-> "busy", result |-> NoResult,
                                       entry |-> EntryFound(cacheKey)]
                       /\ dict_last' = [n |-> Flip(dict_last.n), key |-> cacheKey,
                                        outcome |-> "failed"]
                       /\ UNCHANGED <<dict_isProcessing, dict_pending>>
                  ELSE /\ dict_isProcessing' = TRUE
                       /\ dict_pending' = [key |-> cacheKey, word |-> w,
                                           sourceLang |-> sourceLang,
                                           targetLang |-> targetLang]
                       /\ dict_ret' = [n |-> Flip(dict_ret.n), key |-> cacheKey,
                                       outcome |-> "fetching", result |-> NoResult,
                                       entry |-> EntryFound(cacheKey)]
                       /\ UNCHANGED dict_last
    /\ UNCHANGED dict_now
    /\ UNCHANGED notDict

\* the AI answers: the result is parsed, cached and returned
LookupResponse(aiResponse) ==
    /\ dict_pending # NoCall
    /\ LET c == dict_pending
           result == parseAIResponse(aiResponse, c.word, c.sourceLang, c.targetLang,
                                     dict_now)
       IN /\ dict_cache' = saveToCache(dict_cache, c.key, result, dict_now)
          /\ dict_last' = [n |-> Flip(dict_last.n), key |-> c.key, outcome |-> "ok"]
    /\ dict_isProcessing' = FALSE
    /\ dict_pending' = NoCall
    /\ UNCHANGED <<dict_now, dict_ret>>
    /\ UNCHANGED notDict

\* the AI query fails (network, HTTP status, response format): lookup
\* rethrows
LookupError ==
    /\ dict_pending # NoCall
    /\ dict_last' = [n |-> Flip(dict_last.n), key |-> dict_pending.key,
                     outcome |-> "failed"]
    /\ dict_isProcessing' = FALSE
    /\ dict_pending' = NoCall
    /\ UNCHANGED <<dict_cache, dict_now, dict_ret>>
    /\ UNCHANGED notDict

NextDict ==
    \/ \E d \in {1, cacheExpiry} : DictTick(d)
    \/ \E w \in Words, lp \in LangPairs : Lookup(w, lp[1], lp[2])
    \/ \E a \in DictAnswers : LookupResponse(a)
    \/ LookupError


\* ---------------------------------------------------------------------
\* ProgressTracker (src/unnamed/part_001)
\* ---------------------------------------------------------------------
MaxPtLoads == 1

ModuleNames == {"alphabets", "vocabulary", "grammar", "assessment"}

\* the module names and percentages callers pass
ModuleArgs == {"alphabets", "unknown"}
Percentages == {-5, 130}

NoItem == [null |-> TRUE]
NoDoc == [exists |-> FALSE]

NewModules == [k \in ModuleNames |-> [completed |-> FALSE, progress |-> 0]]

Min(a, b) == IF a < b THEN a ELSE b
Max(a, b) == IF a > b THEN a ELSE b

\* JSON.stringify(this.modules)
Stringify(modules) == [json |-> modules]

\* Object.keys(savedModules).forEach(...) of loadProgress and
\* loadLocalProgress: completed and progress of the known modules
MergeSaved(modules, savedModules) ==
    [k \in ModuleNames |->
        IF k \in DOMAIN savedModules
        THEN [completed |-> savedModules[k].completed,
              progress |-> savedModules[k].progress]
        ELSE modules[k]]

loadLocalProgress(modules, session) ==
    IF session # NoItem THEN MergeSaved(modules, session.json) ELSE modules

\* Math.floor in the place of Math.round
MathFloorQuarters(q) == q \div 4

\* progress * 0.25 is exact in binary floating point; the sum is kept in
\* quarters and Math.round(x) is floor(x + 0.5)
MathRoundQuarters(q) == (q + 2) \div 4

RECURSIVE SumProgress(_, _)
SumProgress(modules, keys) ==
    IF keys = {} THEN 0
    ELSE LET k == CHOOSE x \in keys : TRUE
         IN modules[k].progress + SumProgress(modules, keys \ {k})

\* updateProgressBar: the percentage it displays
updateProgressBar(modules) == MathRoundQuarters(SumProgress(modules, ModuleNames))

\* generateMenuHTML: the overall percentage of the menu header
generateMenuHTML(modules) == MathRoundQuarters(SumProgress(modules, DOMAIN modules))

NoFrame == [pc |-> "none", n |-> 0]

InitPT ==
    /\ pt_modules = NewModules
    /\ pt_currentUser = NoUser
    /\ pt_userId = NoUser
    /\ pt_initialized = FALSE
    /\ pt_session = NoItem
    /\ pt_docs = [u \in Users |-> NoDoc]
    /\ pt_firebase = FALSE
    /\ pt_authWait = "polling"
    /\ pt_fbUser = NoUser
    /\ pt_fbPending = FALSE
    /\ pt_loads = <<>>
    /\ pt_op = NoFrame
    /\ pt_init = NoFrame
    /\ pt_progressText = -1
    /\ pt_menu = -1

\* this.userId || this.currentUser?.uid
EffectiveUserId == IF pt_userId # NoUser THEN pt_userId ELSE pt_currentUser

\* a loadProgress() call has run to its end: initialize(), when it made
\* the call, sets initialized and returns true
FinishLoad(origin, source) ==
    IF origin = "initialize"
    THEN /\ pt_initialized' = TRUE
         /\ pt_init' = [pc |-> "done", ret |-> TRUE, source |-> source]
    ELSE UNCHANGED <<pt_initialized, pt_init>>

\* loadProgress() up to its `await window.getDoc(...)`, with the user id
\* the caller has just set
loadProgress(userId, origin) ==
    IF userId = NoUser \/ ~pt_firebase
    THEN /\ pt_modules' = loadLocalProgress(pt_modules, pt_session)
         /\ pt_progressText' = updateProgressBar(pt_modules')
         /\ FinishLoad(origin, IF userId = NoUser THEN "local_nouser" ELSE "local_nofirebase")
         /\ UNCHANGED pt_loads
    ELSE /\ pt_loads' = Append(pt_loads, [pc |-> "getDoc", userId |-> userId,
                                          origin |-> origin, data |-> NewModules,
                                          recorded |-> pt_modules # NewModules])
         /\ IF origin = "initialize"
            THEN pt_init' = [pc |-> "loading"] /\ UNCHANGED pt_initialized
            ELSE UNCHANGED <<pt_initialized, pt_init>>
         /\ UNCHANGED <<pt_modules, pt_progressText>>

\* initialize(userId)
Initialize(userId) ==
    /\ pt_init.pc # "loading"
    /\ Len(pt_loads) < MaxPtLoads
    /\ pt_userId' = userId
    /\ loadProgress(userId, "initialize")
    /\ UNCHANGED <<pt_currentUser, pt_session, pt_docs, pt_firebase, pt_authWait, pt_fbUser,
                   pt_fbPending, pt_op, pt_menu>>
    /\ UNCHANGED notPT

\* initializeAuth: the Firebase scripts have loaded.  Within the five
\* seconds of polling the listener is registered; later only Firestore
\* becomes usable.
PtFirebaseLoaded ==
    /\ ~pt_firebase
    /\ pt_firebase' = TRUE
    /\ IF pt_authWait = "polling"
       THEN pt_authWait' = "listening" /\ pt_fbPending' = TRUE
       ELSE UNCHANGED <<pt_authWait, pt_fbPending>>
    /\ UNCHANGED <<pt_modules, pt_currentUser, pt_userId, pt_initialized, pt_session,
                   pt_docs, pt_fbUser, pt_loads, pt_op, pt_init, pt_progressText,
                   pt_menu>>
    /\ UNCHANGED notPT

\* initializeAuth: the timeout after 5 seconds without window.auth
PtFirebaseTimeout ==
    /\ pt_authWait = "polling"
    /\ ~pt_firebase
    /\ pt_authWait' = "timeout"
    /\ pt_modules' = loadLocalProgress(pt_modules, pt_session)
    /\ pt_progressText' = updateProgressBar(pt_modules')
    /\ UNCHANGED <<pt_currentUser, pt_userId, pt_initialized, pt_session, pt_docs,
                   pt_firebase, pt_fbUser, pt_fbPending, pt_loads, pt_op, pt_init,
                   pt_menu>>
    /\ UNCHANGED notPT

PtSignIn(u) ==
    /\ pt_firebase
    /\ pt_fbUser = NoUser
    /\ pt_fbUser' = u
    /\ pt_fbPending' = (pt_authWait = "listening")
    /\ UNCHANGED <<pt_modules, pt_currentUser, pt_userId, pt_initialized, pt_session,
                   pt_docs, pt_firebase, pt_authWait, pt_loads, pt_op, pt_init, pt_progressText,
                   pt_menu>>
    /\ UNCHANGED notPT

PtSignOut ==
    /\ pt_firebase
    /\ pt_fbUser # NoUser
    /\ pt_fbUser' = NoUser
    /\ pt_fbPending' = (pt_authWait = "listening")
    /\ UNCHANGED <<pt_modules, pt_currentUser, pt_userId, pt_initialized, pt_session,
                   pt_docs, pt_firebase, pt_authWait, pt_loads, pt_op, pt_init, pt_progressText,
                   pt_menu>>
    /\ UNCHANGED notPT

\* initializeAuth: the onAuthStateChanged listener
PtAuthStateChanged ==
    /\ pt_fbPending
    /\ pt_authWait = "listening"
    /\ Len(pt_loads) < MaxPtLoads
    /\ pt_fbPending' = FALSE
    /\ IF pt_fbUser # NoUser
       THEN /\ pt_currentUser' = pt_fbUser
            /\ pt_userId' = pt_fbUser
            /\ loadProgress(pt_fbUser, "auth")
       ELSE /\ pt_currentUser' = NoUser
            /\ pt_userId' = NoUser
            /\ pt_modules' = loadLocalProgress(pt_modules, pt_session)
            /\ pt_progressText' = updateProgressBar(pt_modules')
            /\ UNCHANGED <<pt_loads, pt_initialized, pt_init>>
    /\ UNCHANGED <<pt_session, pt_docs, pt_firebase, pt_authWait, pt_fbUser, pt_op, pt_menu>>
    /\ UNCHANGED notPT

\* loadProgress after getDoc: "found", "missing" or "error"
GetDocDone(i, outcome) ==
    /\ i \in DOMAIN pt_loads
    /\ pt_loads[i].pc = "getDoc"
    /\ LET l == pt_loads[i] IN
       /\ outcome = (IF pt_docs[l.userId] = NoDoc THEN "missing" ELSE "found")
            \/ outcome = "error"
       /\ CASE outcome = "found" ->
                /\ pt_modules' = MergeSaved(pt_modules, pt_docs[l.userId].modules)
                /\ pt_progressText' = updateProgressBar(pt_modules')
                /\ pt_loads' = RemoveAt(pt_loads, i)
                /\ FinishLoad(l.origin, "firestore")
                /\ UNCHANGED pt_session
            [] outcome = "error" ->
                /\ pt_modules' = loadLocalProgress(pt_modules, pt_session)
                /\ pt_progressText' = updateProgressBar(pt_modules')
                /\ pt_loads' = RemoveAt(pt_loads, i)
                /\ FinishLoad(l.origin, "local_error")
                /\ UNCHANGED pt_session
            [] outcome = "missing" ->
                \* 'No saved progress found, initializing new progress':
                \* saveProgress() up to its await
                /\ pt_session' = Stringify(pt_modules)
                /\ IF EffectiveUserId # NoUser
                   THEN /\ pt_loads' = [pt_loads EXCEPT ![i] =
                                [pc |-> "setDoc", userId |-> EffectiveUserId,
                                 origin |-> l.origin, data |-> pt_modules,
                                 recorded |-> l.recorded]]
                        /\ UNCHANGED <<pt_progressText, pt_initialized, pt_init>>
                   ELSE /\ pt_loads' = RemoveAt(pt_loads, i)
                        /\ pt_progressText' = updateProgressBar(pt_modules)
                        /\ FinishLoad(l.origin, "new")
                /\ UNCHANGED pt_modules
    /\ UNCHANGED <<pt_currentUser, pt_userId, pt_docs, pt_firebase, pt_authWait, pt_fbUser,
                   pt_fbPending, pt_op, pt_menu>>
    /\ UNCHANGED notPT

\* loadProgress after the setDoc of its saveProgress(); a failed write is
\* logged by saveProgress
LoadSetDocDone(i, ok) ==
    /\ i \in DOMAIN pt_loads
    /\ pt_loads[i].pc = "setDoc"
    /\ LET l == pt_loads[i] IN
       /\ pt_docs' = IF ok THEN [pt_docs EXCEPT ![l.userId] =
                                    [exists |-> TRUE, modules |-> l.data]]
                     ELSE pt_docs
       /\ FinishLoad(l.origin, "new")
    /\ pt_loads' = RemoveAt(pt_loads, i)
    /\ pt_progressText' = updateProgressBar(pt_modules)
    /\ UNCHANGED <<pt_modules, pt_currentUser, pt_userId, pt_session, pt_firebase, pt_authWait,
                   pt_fbUser, pt_fbPending, pt_op, pt_menu>>
    /\ UNCHANGED notPT

\* a saveProgress() that writes the item only when it writes no document
saveProgressEitherStore(op, modules) ==
    IF EffectiveUserId # NoUser /\ pt_firebase
    THEN /\ pt_op' = [op EXCEPT !.pc = "setDoc", !.changed = TRUE,
                      !.userId = EffectiveUserId, !.data = modules,
                      !.result = "pending"]
         /\ UNCHANGED <<pt_session, pt_progressText, pt_menu>>
    ELSE /\ pt_session' = Stringify(modules)
         /\ pt_op' = [op EXCEPT !.pc = "done", !.changed = TRUE,
                      !.data = modules, !.result = "returned"]
         /\ pt_progressText' = updateProgressBar(modules)
         /\ pt_menu' = IF pt_menu # -1 /\ op.op \in {"markComplete", "resetProgress"}
                       THEN generateMenuHTML(modules) ELSE pt_menu

\* saveProgress() up to its await, as the last statement before the
\* caller's own await: the item is written, and the document write is
\* started when a user id and Firestore are there
saveProgress(op, modules) ==
    /\ pt_session' = Stringify(modules)
    /\ IF EffectiveUserId # NoUser /\ pt_firebase
       THEN /\ pt_op' = [op EXCEPT !.pc = "setDoc", !.changed = TRUE,
                         !.userId = EffectiveUserId, !.data = modules,
                         !.result = "pending"]
            /\ UNCHANGED <<pt_progressText, pt_menu>>
       ELSE /\ pt_op' = [op EXCEPT !.pc = "done", !.changed = TRUE,
                         !.data = modules, !.result = "returned"]
            /\ pt_progressText' = updateProgressBar(modules)
            /\ pt_menu' = IF pt_menu # -1 /\ op.op \in {"markComplete", "resetProgress"}
                          THEN generateMenuHTML(modules) ELSE pt_menu

\* the call did nothing: unknown module, or the reset was not confirmed
NothingDone(op) ==
    /\ pt_op' = [op EXCEPT !.pc = "done", !.result = "returned"]
    /\ UNCHANGED <<pt_modules, pt_session, pt_progressText, pt_menu>>

\* the frame of a call that begins: which call, with which arguments
Call(op, moduleName, percentage) ==
    [n |-> Flip(pt_op.n), pc |-> "begin", op |-> op, moduleName |-> moduleName,
     percentage |-> percentage, changed |-> FALSE, userId |-> NoUser,
     data |-> pt_modules, result |-> "pending"]

\* updateModuleProgress(moduleName, percentage); the caller awaits the
\* call it made before
UpdateModuleProgress(moduleName, percentage) ==
    /\ pt_op.pc # "setDoc"
    /\ IF moduleName \in DOMAIN pt_modules
       THEN /\ pt_modules' = [pt_modules EXCEPT
                    ![moduleName].progress = Min(100, Max(0, percentage)),
                    ![moduleName].completed = (percentage >= 100 \/ @)]
            /\ saveProgress(Call("updateModuleProgress", moduleName, percentage), pt_modules')
       ELSE NothingDone(Call("updateModuleProgress", moduleName, percentage))
    /\ UNCHANGED <<pt_currentUser, pt_userId, pt_initialized, pt_docs, pt_firebase, pt_authWait,
                   pt_fbUser, pt_fbPending, pt_loads, pt_init>>
    /\ UNCHANGED notPT

MarkComplete(moduleName) ==
    /\ pt_op.pc # "setDoc"
    /\ IF moduleName \in DOMAIN pt_modules
       THEN /\ pt_modules' = [pt_modules EXCEPT
                    ![moduleName] = [completed |-> TRUE, progress |-> 100]]
            /\ saveProgress(Call("markComplete", moduleName, 100), pt_modules')
       ELSE NothingDone(Call("markComplete", moduleName, 100))
    /\ UNCHANGED <<pt_currentUser, pt_userId, pt_initialized, pt_docs, pt_firebase, pt_authWait,
                   pt_fbUser, pt_fbPending, pt_loads, pt_init>>
    /\ UNCHANGED notPT

\* resetProgress(); confirmed is the answer to confirm(...)
ResetProgress(confirmed) ==
    /\ pt_op.pc # "setDoc"
    /\ IF confirmed
       THEN /\ pt_modules' = [k \in DOMAIN pt_modules |->
                                [completed |-> FALSE, progress |-> 0]]
            /\ saveProgress(Call("resetProgress", "all", 0), pt_modules')
       ELSE NothingDone(Call("resetProgress", "all", 0))
    /\ UNCHANGED <<pt_currentUser, pt_userId, pt_initialized, pt_docs, pt_firebase, pt_authWait,
                   pt_fbUser, pt_fbPending, pt_loads, pt_init>>
    /\ UNCHANGED notPT

\* the call after the setDoc of its saveProgress(): a failed write is
\* caught and logged there, and the call goes on to update the display
OpSetDocDone(ok) ==
    /\ pt_op.pc = "setDoc"
    /\ pt_docs' = IF ok THEN [pt_docs EXCEPT ![pt_op.userId] =
                                [exists |-> TRUE, modules |-> pt_op.data]]
                  ELSE pt_docs
    /\ pt_op' = [pt_op EXCEPT !.pc = "done", !.result = "returned"]
    /\ pt_progressText' = updateProgressBar(pt_modules)
    /\ pt_menu' = IF pt_menu # -1 /\ pt_op.op \in {"markComplete", "resetProgress"}
                  THEN generateMenuHTML(pt_modules) ELSE pt_menu
    /\ UNCHANGED <<pt_modules, pt_currentUser, pt_userId, pt_initialized, pt_session,
                   pt_firebase, pt_authWait, pt_fbUser, pt_fbPending, pt_loads, pt_init>>
    /\ UNCHANGED notPT

\* toggleMenu: the menu is created, or removed
ToggleMenu ==
    /\ pt_menu' = IF pt_menu = -1 THEN generateMenuHTML(pt_modules) ELSE -1
    /\ UNCHANGED <<pt_modules, pt_currentUser, pt_userId, pt_initialized, pt_session,
                   pt_docs, pt_firebase, pt_authWait, pt_fbUser, pt_fbPending, pt_loads, pt_op,
                   pt_init, pt_progressText>>
    /\ UNCHANGED notPT

NextPT ==
    \/ PtFirebaseLoaded
    \/ PtFirebaseTimeout
    \/ \E u \in Users : Initialize(u)
    \/ \E u \in Users : PtSignIn(u)
    \/ PtSignOut
    \/ PtAuthStateChanged
    \/ \E i \in 1..MaxPtLoads : \E o \in {"found", "missing", "error"} : GetDocDone(i, o)
    \/ \E i \in 1..MaxPtLoads : \E ok \in BOOLEAN : LoadSetDocDone(i, ok)
    \/ \E m \in ModuleArgs, pct \in Percentages : UpdateModuleProgress(m, pct)
    \/ \E m \in ModuleArgs : MarkComplete(m)
    \/ \E c \in BOOLEAN : ResetProgress(c)
    \/ \E ok \in BOOLEAN : OpSetDocDone(ok)

\* The overall percentage is a function of the modules alone: it is
\* computed here for every combination of these progress values, by the
\* progress bar (the timeout's loadLocalProgress) and by the menu.
ProgressValues == {0, 1, 2, 50, 100}

InitOverall ==
    /\ pt_modules \in [ModuleNames -> 
            {[completed |-> p >= 100, progress |-> p] : p \in ProgressValues}]
    /\ pt_currentUser = NoUser
    /\ pt_userId = NoUser
    /\ pt_initialized = FALSE
    /\ pt_session = NoItem
    /\ pt_docs = [u \in Users |-> NoDoc]
    /\ pt_firebase = FALSE
    /\ pt_authWait = "polling"
    /\ pt_fbUser = NoUser
    /\ pt_fbPending = FALSE
    /\ pt_loads = <<>>
    /\ pt_op = NoFrame
    /\ pt_init = NoFrame
    /\ pt_progressText = -1
    /\ pt_menu = -1

NextOverall ==
    \/ ToggleMenu
    \/ PtFirebaseTimeout


\* ---------------------------------------------------------------------
\* AIAssistant (src/js/ai-assistant.js)
\* ---------------------------------------------------------------------
maxHistoryLength == 10

\* how many provider queries the model can hold in flight
MaxInflight == 2

validProviders == {"groq", "huggingface", "ollama"}

\* the provider argument of testConnection: a provider, an unknown name,
\* or null
TestProviders == validProviders \cup {"bogus", "null"}

\* "Hello, test connection", which a user may type as well
TestPrompt == <<"H", "i">>
Prompts == { TestPrompt, <<" ">>, <<>> }

NoTest == 0

\* addToHistory
addToHistory(history, userMessage, assistantResponse) ==
    LET h == Append(history, [user |-> userMessage, assistant |-> assistantResponse])
    IN IF Len(h) > maxHistoryLength
       THEN SubSeq(h, Len(h) - maxHistoryLength + 1, Len(h))
       ELSE h

InitAI ==
    /\ ai_apiProvider = "groq"
    /\ ai_isProcessing = FALSE
    /\ ai_conversationHistory = <<>>
    /\ ai_inflight = <<>>
    /\ ai_ret = [n |-> 0, kind |-> "none"]
    /\ ai_tests = <<>>
    /\ ai_testRet = [n |-> 0, success |-> FALSE, outcome |-> "none",
                     before |-> "groq", after |-> "groq"]

\* a sendMessage without the isProcessing check
sendMessageUnguarded(prompt, provider) ==
    IF Trim(prompt) = <<>> THEN "empty"
    ELSE IF provider \notin validProviders THEN "unknown"
    ELSE "query"

\* sendMessage(prompt) up to its first await; the effect on all variables
\* but apiProvider, ai_tests and ai_testRet.  test is the testConnection
\* call that sends the message, NoTest for another caller.
\*   "empty"    the prompt is empty: the warning is returned
\*   "busy"     isProcessing: the 'still processing' message is returned
\*   "unknown"  the switch throws 'Unknown provider'; catch returns the
\*              error message and finally resets isProcessing
\*   "query"    the provider is queried
sendMessageKind(prompt, provider) ==
    IF Trim(prompt) = <<>> THEN "empty"
    ELSE IF ai_isProcessing THEN "busy"
    ELSE IF provider \notin validProviders THEN "unknown"
    ELSE "query"

sendMessage(prompt, provider, test) ==
    LET kind == sendMessageKind(prompt, provider) IN
    IF kind = "query"
    THEN /\ ai_isProcessing' = TRUE
         /\ ai_inflight' = Append(ai_inflight,
                [prompt |-> prompt, provider |-> provider, test |-> test])
         /\ UNCHANGED <<ai_conversationHistory, ai_ret>>
    ELSE /\ ai_ret' = [n |-> Flip(ai_ret.n), kind |-> kind]
         /\ ai_isProcessing' = ai_isProcessing
         /\ UNCHANGED <<ai_conversationHistory, ai_inflight>>

\* a chat message typed by the user
SendMessage(prompt) ==
    /\ Len(ai_inflight) < MaxInflight
    /\ sendMessage(prompt, ai_apiProvider, NoTest)
    /\ UNCHANGED <<ai_apiProvider, ai_tests, ai_testRet>>
    /\ UNCHANGED notAI

setProvider(provider) ==
    /\ provider \in validProviders
    /\ ai_apiProvider' = provider
    /\ UNCHANGED <<ai_isProcessing, ai_conversationHistory, ai_inflight, ai_ret,
                   ai_tests, ai_testRet>>
    /\ UNCHANGED notAI

\* what testConnection returns once its sendMessage() has returned: the
\* try block has no other statement that throws, so it is the success
\* object whatever sendMessage returned
testConnectionResult(before, outcome) ==
    [n |-> Flip(ai_testRet.n), success |-> TRUE, outcome |-> outcome,
     before |-> before, after |-> before]

\* testConnection(provider) up to its await of sendMessage(); when
\* sendMessage returns without awaiting, the rest of testConnection
\* follows at once
testConnection(provider) ==
    /\ Len(ai_inflight) < MaxInflight
    /\ LET originalProvider == ai_apiProvider
           used == IF provider # "null" THEN provider ELSE ai_apiProvider
           kind == sendMessageKind(TestPrompt, used)
           id == Len(ai_tests) + 1
       IN /\ sendMessage(TestPrompt, used, id)
          /\ IF kind = "query"
             THEN /\ ai_apiProvider' = used
                  /\ ai_tests' = Append(ai_tests, [originalProvider |-> originalProvider])
                  /\ UNCHANGED ai_testRet
             ELSE /\ ai_apiProvider' = originalProvider
                  /\ ai_testRet' = testConnectionResult(originalProvider,
                        IF kind = "unknown" THEN "failed" ELSE "notsent")
                  /\ UNCHANGED ai_tests
    /\ UNCHANGED notAI

\* the provider query of a sendMessage() ends: with a response, which is
\* added to the history and returned, or with an error, whose message is
\* returned; isProcessing is reset; a waiting testConnection goes on
QueryDone(i, ok) ==
    /\ i \in DOMAIN ai_inflight
    /\ LET q == ai_inflight[i] IN
       /\ ai_conversationHistory' =
            IF ok THEN addToHistory(ai_conversationHistory, q.prompt, "response")
            ELSE ai_conversationHistory
       /\ ai_ret' = [n |-> Flip(ai_ret.n), kind |-> IF ok THEN "response" ELSE "error"]
       /\ IF q.test # NoTest
          THEN /\ ai_apiProvider' = ai_tests[q.test].originalProvider
               /\ ai_testRet' = testConnectionResult(ai_tests[q.test].originalProvider,
                                    IF ok THEN "answered" ELSE "failed")
               /\ ai_tests' = SubSeq(ai_tests, 1, q.test - 1)
          ELSE UNCHANGED <<ai_apiProvider, ai_tests, ai_testRet>>
    /\ ai_inflight' = RemoveAt(ai_inflight, i)
    /\ ai_isProcessing' = FALSE
    /\ UNCHANGED notAI

clearHistory ==
    /\ ai_conversationHistory # <<>>
    /\ ai_conversationHistory' = <<>>
    /\ UNCHANGED <<ai_apiProvider, ai_isProcessing, ai_inflight, ai_ret, ai_tests,
                   ai_testRet>>
    /\ UNCHANGED notAI

NextAI ==
    \/ \E prompt \in Prompts : SendMessage(prompt)
    \/ \E provider \in validProviders : setProvider(provider)
    \/ \E provider \in TestProviders : testConnection(provider)
    \/ \E i \in 1..MaxInflight : \E ok \in BOOLEAN : QueryDone(i, ok)
    \/ clearHistory


\* ---------------------------------------------------------------------
\* TranslationWidget (src/unnamed/part_002)
\* ---------------------------------------------------------------------
\* translateAllNodes runs the calls of a batch in parallel
MaxCalls == 2

\* this.translationAPIs: MyMemory, GoogleTranslate, LibreTranslate
NumAPIs == 3
APIs == 0..(NumAPIs - 1)

\* the trimmed text of a text node that translateAllNodes passes on
NodeTexts == { <<"a", "b">> }

Null == <<>>

\* what translateWithAPI resolves to: null (the API threw or had
\* nothing), the text unchanged, or a translation
ApiResults == { "null", "same", "translation" }

ApiResult(kind, text) ==
    IF kind = "null" THEN Null
    ELSE IF kind = "same" THEN text
    ELSE <<"T">> \o text

InitTW ==
    /\ tw_currentAPIIndex = 0
    /\ tw_translationCache = <<>>
    /\ tw_calls = <<>>
    /\ tw_ret = [n |-> 0, text |-> Null, result |-> Null, cached |-> FALSE,
                 first |-> 0, tried |-> <<>>, last |-> Null, index |-> 0]

\* the for loop from index i on: the next API that is not the one at
\* currentAPIIndex, NumAPIs when the loop is over
RECURSIVE NextAPI(_, _)
NextAPI(i, currentAPIIndex) ==
    IF i >= NumAPIs THEN NumAPIs
    ELSE IF i # currentAPIIndex THEN i
    ELSE NextAPI(i + 1, currentAPIIndex)

Yields(translated, text) == translated # Null /\ translated # text

\* the end of translateWithFallback: the cache entry and the value
Resolve(c, translated, currentAPIIndex) ==
    /\ tw_translationCache' =
        IF translated # Null
        THEN [k \in DOMAIN tw_translationCache \cup {c.text} |->
                IF k = c.text THEN translated ELSE tw_translationCache[k]]
        ELSE tw_translationCache
    /\ tw_ret' = [n |-> Flip(tw_ret.n), text |-> c.text,
                  result |-> IF translated # Null THEN translated ELSE c.text,
                  cached |-> FALSE, first |-> c.first, tried |-> c.tried,
                  last |-> translated, index |-> currentAPIIndex]

\* translateWithFallback(text) up to its first await
TranslateWithFallback(text) ==
    /\ IF text \in DOMAIN tw_translationCache
       THEN /\ tw_ret' = [n |-> Flip(tw_ret.n), text |-> text,
                          result |-> tw_translationCache[text], cached |-> TRUE,
                          first |-> tw_currentAPIIndex, tried |-> <<>>,
                          last |-> Null, index |-> tw_currentAPIIndex]
            /\ UNCHANGED tw_calls
       ELSE /\ Len(tw_calls) < MaxCalls
            /\ tw_calls' = Append(tw_calls,
                    [text |-> text, first |-> tw_currentAPIIndex,
                     api |-> tw_currentAPIIndex, inLoop |-> FALSE,
                     tried |-> <<tw_currentAPIIndex>>])
            /\ UNCHANGED tw_ret
    /\ UNCHANGED <<tw_currentAPIIndex, tw_translationCache>>
    /\ UNCHANGED notTW

\* translateWithAPI(text, apiIndex) resolved to translated: the call goes
\* on to its next await or to its end
TranslateWithAPIDone(j, kind) ==
    /\ j \in DOMAIN tw_calls
    /\ LET c == tw_calls[j]
           translated == ApiResult(kind, c.text)
           found == Yields(translated, c.text)
           currentAPIIndex == IF c.inLoop /\ found THEN c.api ELSE tw_currentAPIIndex
           next == IF found THEN NumAPIs
                   ELSE NextAPI(IF c.inLoop THEN c.api + 1 ELSE 0, currentAPIIndex)
       IN /\ tw_currentAPIIndex' = currentAPIIndex
          /\ IF next < NumAPIs
             THEN /\ tw_calls' = [tw_calls EXCEPT ![j] =
                        [c EXCEPT !.api = next, !.inLoop = TRUE,
                                  !.tried = Append(@, next)]]
                  /\ UNCHANGED <<tw_translationCache, tw_ret>>
             ELSE /\ tw_calls' = RemoveAt(tw_calls, j)
                  /\ Resolve(c, translated, currentAPIIndex)
    /\ UNCHANGED notTW

\* revertTranslation: this.translationCache.clear()
ClearTranslationCache ==
    /\ tw_translationCache # <<>>
    /\ tw_translationCache' = <<>>
    /\ UNCHANGED <<tw_currentAPIIndex, tw_calls, tw_ret>>
    /\ UNCHANGED notTW

NextTW ==
    \/ \E text \in NodeTexts : TranslateWithFallback(text)
    \/ \E j \in 1..MaxCalls : \E kind \in ApiResults :
            TranslateWithAPIDone(j, kind)
    \/ ClearTranslationCache

\* ---------------------------------------------------------------------
\* FirebaseAuthManager.handleUserSignIn / createUserProfile and
\* PageConnectionManager.saveProfile / loadProfile / initializeModules
\* (src/js/page-connection.js): the Firestore document users/<uid>
\* ---------------------------------------------------------------------
MaxSaves == 1

Absent == "absent"

NoProfile == [exists |-> FALSE]

DefaultModules == "default"

\* createUserProfile: the document written for a user without one
DefaultProfile ==
    [exists |-> TRUE, language |-> "en", profileComplete |-> FALSE,
     modules |-> DefaultModules]

\* what a caller hands to saveProfile(profileData)
ProfileData ==
    { [language |-> "ta", modules |-> Absent],
      [language |-> Absent, modules |-> "custom"] }

NoWrite == [n |-> 0, op |-> "none", existed |-> FALSE]

InitUP ==
    /\ up_fbUser = NoUser
    /\ up_report = FALSE
    /\ up_google = FALSE
    /\ up_currentUser = NoUser
    /\ up_lastAuthState = NoUser
    /\ up_isInitializing = FALSE
    /\ up_handlers = <<>>
    /\ up_doc = NoDoc
    /\ up_lastWrite = NoWrite
    /\ up_profileLoads = 0
    /\ up_userProfile = NoProfile
    /\ up_saves = <<>>

\* saveProfile: completeProfile = {...profileData, uid, lastUpdated, profileComplete: true}
CompleteProfile(data) ==
    [exists |-> TRUE, language |-> data.language, profileComplete |-> TRUE,
     modules |-> data.modules]

\* setDoc(userRef, completeProfile, { merge: true })
MergeDoc(d, p) ==
    [exists |-> TRUE,
     language |-> IF p.language # Absent THEN p.language
                  ELSE IF d.exists THEN d.language ELSE Absent,
     profileComplete |-> p.profileComplete,
     modules |-> IF p.modules # Absent THEN p.modules
                 ELSE IF d.exists THEN d.modules ELSE Absent]

\* initializeModules: this.userProfile.modules || { alphabets: ..., ... }
ModulesOrDefault(p) ==
    IF p.modules # Absent THEN p.modules ELSE DefaultModules

\* signInWithGoogle: signInWithPopup succeeds; Firebase will call the auth
\* listener and resolve the popup's promise
SignInWithGoogle ==
    /\ up_fbUser = NoUser
    /\ \E u \in Users : up_fbUser' = u
    /\ up_report' = TRUE
    /\ up_google' = TRUE
    /\ UNCHANGED <<up_currentUser, up_lastAuthState, up_isInitializing,
                   up_handlers, up_doc, up_lastWrite, up_profileLoads,
                   up_userProfile, up_saves>>
    /\ UNCHANGED notUP

\* initializeAuthListener's callback, and the PageConnectionManager listener
\* it notifies (loadUserProfile up to its await)
AuthListenerReport ==
    /\ up_report
    /\ up_report' = FALSE
    /\ LET user == up_fbUser
           userChanged == up_lastAuthState # user
       IN /\ up_lastAuthState' = user
          /\ IF userChanged
             THEN /\ up_currentUser' = user
                  /\ IF user # NoUser /\ ~up_isInitializing
                     THEN /\ up_isInitializing' = TRUE
                          /\ up_handlers' =
                                Append(up_handlers,
                                       [origin |-> "listener", pc |-> "getDoc"])
                     ELSE UNCHANGED <<up_isInitializing, up_handlers>>
                  /\ up_profileLoads' =
                        IF user # NoUser THEN up_profileLoads + 1
                        ELSE up_profileLoads
             ELSE UNCHANGED <<up_currentUser, up_isInitializing, up_handlers,
                              up_profileLoads>>
    /\ UNCHANGED <<up_fbUser, up_google, up_doc, up_lastWrite, up_userProfile,
                   up_saves>>
    /\ UNCHANGED notUP

\* signInWithGoogle after its await: this.currentUser = result.user;
\* await this.handleUserSignIn(result.user)
SignInWithGoogleResolved ==
    /\ up_google
    /\ up_google' = FALSE
    /\ up_currentUser' = up_fbUser
    /\ up_handlers' = Append(up_handlers, [origin |-> "google", pc |-> "getDoc"])
    /\ UNCHANGED <<up_fbUser, up_report, up_lastAuthState, up_isInitializing,
                   up_doc, up_lastWrite, up_profileLoads, up_userProfile,
                   up_saves>>
    /\ UNCHANGED notUP

\* .finally(() => { this.isInitializing = false; }) of the listener's call
HandlerReturns(i) ==
    /\ up_handlers' = RemoveAt(up_handlers, i)
    /\ up_isInitializing' =
          IF up_handlers[i].origin = "listener" THEN FALSE
          ELSE up_isInitializing

\* handleUserSignIn after await getDoc(userRef)
HandleUserSignInGetDocDone(i, ok) ==
    /\ i \in 1..Len(up_handlers)
    /\ up_handlers[i].pc = "getDoc"
    /\ IF ~ok
       THEN HandlerReturns(i)
       ELSE /\ up_handlers' =
                  [up_handlers EXCEPT ![i].pc =
                      IF ~up_doc.exists THEN "createUserProfile"
                      ELSE "updateUserLastLogin"]
            /\ UNCHANGED up_isInitializing
    /\ UNCHANGED <<up_fbUser, up_report, up_google, up_currentUser,
                   up_lastAuthState, up_doc, up_lastWrite, up_profileLoads,
                   up_userProfile, up_saves>>
    /\ UNCHANGED notUP

\* createUserProfile after await setDoc(userRef, userProfile)
CreateUserProfileDone(i, ok) ==
    /\ i \in 1..Len(up_handlers)
    /\ up_handlers[i].pc = "createUserProfile"
    /\ HandlerReturns(i)
    /\ IF ok
       THEN /\ up_doc' = DefaultProfile
            /\ up_lastWrite' = [n |-> Flip(up_lastWrite.n),
                                op |-> "createUserProfile",
                                existed |-> up_doc.exists]
       ELSE UNCHANGED <<up_doc, up_lastWrite>>
    /\ UNCHANGED <<up_fbUser, up_report, up_google, up_currentUser,
                   up_lastAuthState, up_profileLoads, up_userProfile, up_saves>>
    /\ UNCHANGED notUP

\* updateUserLastLogin after await setDoc(userRef, { lastLogin }, { merge: true })
UpdateUserLastLoginDone(i, ok) ==
    /\ i \in 1..Len(up_handlers)
    /\ up_handlers[i].pc = "updateUserLastLogin"
    /\ HandlerReturns(i)
    /\ IF ok
       THEN up_lastWrite' = [n |-> Flip(up_lastWrite.n),
                             op |-> "updateUserLastLogin",
                             existed |-> up_doc.exists]
       ELSE UNCHANGED up_lastWrite
    /\ UNCHANGED <<up_fbUser, up_report, up_google, up_currentUser,
                   up_lastAuthState, up_doc, up_profileLoads,
                   up_userProfile, up_saves>>
    /\ UNCHANGED notUP

\* loadUserProfile after await authManager.getUserProfile()
LoadUserProfileDone(ok) ==
    /\ up_profileLoads > 0
    /\ up_profileLoads' = up_profileLoads - 1
    /\ up_userProfile' =
          IF ok /\ up_currentUser # NoUser /\ up_doc.exists THEN up_doc
          ELSE NoProfile
    /\ UNCHANGED <<up_fbUser, up_report, up_google, up_currentUser,
                   up_lastAuthState, up_isInitializing, up_handlers, up_doc,
                   up_lastWrite, up_saves>>
    /\ UNCHANGED notUP

\* saveProfile(profileData) up to await setDoc(...)
SaveProfile(data) ==
    /\ data \in ProfileData
    /\ Len(up_saves) < MaxSaves
    /\ up_currentUser # NoUser
    /\ up_saves' = Append(up_saves,
                          [origin |-> "saveProfile", pc |-> "setDoc",
                           profile |-> CompleteProfile(data)])
    /\ UNCHANGED <<up_fbUser, up_report, up_google, up_currentUser,
                   up_lastAuthState, up_isInitializing, up_handlers, up_doc,
                   up_lastWrite, up_profileLoads, up_userProfile>>
    /\ UNCHANGED notUP

\* initializeModules from `if (this.userProfile)` on, up to saveProfile's
\* await; saveProfile throws when nobody is signed in
InitializeModulesSave(frames, p) ==
    IF p # NoProfile /\ up_currentUser # NoUser
    THEN Append(frames,
                [origin |-> "initializeModules", pc |-> "setDoc",
                 profile |->
                    CompleteProfile([language |-> Absent,
                                     modules |-> ModulesOrDefault(p)])])
    ELSE frames

\* initializeModules up to its first await
InitializeModules ==
    /\ Len(up_saves) < MaxSaves
    /\ up_saves' =
          IF up_userProfile = NoProfile /\ up_currentUser # NoUser
          THEN Append(up_saves,
                      [origin |-> "initializeModules", pc |-> "loadProfile",
                       profile |-> NoProfile])
          ELSE InitializeModulesSave(up_saves, up_userProfile)
    /\ UNCHANGED <<up_fbUser, up_report, up_google, up_currentUser,
                   up_lastAuthState, up_isInitializing, up_handlers, up_doc,
                   up_lastWrite, up_profileLoads, up_userProfile>>
    /\ UNCHANGED notUP

\* loadProfile after await getDoc(userRef), and initializeModules after it
LoadProfileDone(i, ok) ==
    /\ i \in 1..Len(up_saves)
    /\ up_saves[i].pc = "loadProfile"
    /\ LET p == IF ok /\ up_doc.exists THEN up_doc ELSE up_userProfile
       IN /\ up_userProfile' = p
          /\ up_saves' = InitializeModulesSave(RemoveAt(up_saves, i), p)
    /\ UNCHANGED <<up_fbUser, up_report, up_google, up_currentUser,
                   up_lastAuthState, up_isInitializing, up_handlers, up_doc,
                   up_lastWrite, up_profileLoads>>
    /\ UNCHANGED notUP

\* saveProfile after await setDoc(userRef, completeProfile, { merge: true })
SaveProfileDone(i, ok) ==
    /\ i \in 1..Len(up_saves)
    /\ up_saves[i].pc = "setDoc"
    /\ up_saves' = RemoveAt(up_saves, i)
    /\ IF ok
       THEN /\ up_doc' = MergeDoc(up_doc, up_saves[i].profile)
            /\ up_userProfile' = up_saves[i].profile
            /\ up_lastWrite' = [n |-> Flip(up_lastWrite.n),
                                op |-> up_saves[i].origin,
                                existed |-> up_doc.exists]
       ELSE UNCHANGED <<up_doc, up_userProfile, up_lastWrite>>
    /\ UNCHANGED <<up_fbUser, up_report, up_google, up_currentUser,
                   up_lastAuthState, up_isInitializing, up_handlers,
                   up_profileLoads>>
    /\ UNCHANGED notUP

NextUP ==
    \/ SignInWithGoogle
    \/ AuthListenerReport
    \/ SignInWithGoogleResolved
    \/ \E i \in 1..2 : \E ok \in BOOLEAN : HandleUserSignInGetDocDone(i, ok)
    \/ \E i \in 1..2 : \E ok \in BOOLEAN : CreateUserProfileDone(i, ok)
    \/ \E i \in 1..2 : \E ok \in BOOLEAN : UpdateUserLastLoginDone(i, ok)
    \/ \E ok \in BOOLEAN : LoadUserProfileDone(ok)
    \/ \E data \in ProfileData : SaveProfile(data)
    \/ InitializeModules
    \/ \E i \in 1..MaxSaves : \E ok \in BOOLEAN : LoadProfileDone(i, ok)
    \/ \E i \in 1..MaxSaves : \E ok \in BOOLEAN : SaveProfileDone(i, ok)

\* ---------------------------------------------------------------------
\* TranslationWidget.translatePage / translateAllNodes / revertTranslation
\* (src/unnamed/part_002): the text nodes of the page
\* ---------------------------------------------------------------------
\* translateAllNodes: const batchSize = 5
batchSize == 5

\* the text nodes getAllTextNodes finds: none of them is blank
PageTexts ==
    << <<" ", "a", "b">>, <<"c", "d">>, <<"7">>, <<"e", "f", " ">>,
       <<"7", "7">>, <<"c", "d">> >>

Nodes == 1..Len(PageTexts)

IsLetter(c) == c \notin {" ", "7"}

\* originalText.length < 2 || /^[\d\s\W]+$/.test(originalText)
Skipped(text) == Len(text) < 2 \/ SelectSeq(text, IsLetter) = <<>>

InitWP ==
    /\ wp_nodes = PageTexts
    /\ wp_isTranslated = FALSE
    /\ wp_originalContent = <<>>
    /\ wp_translating = FALSE
    /\ wp_pending = {}
    /\ wp_nextBatch = 1
    /\ wp_before = PageTexts
    /\ wp_altered = {}

\* batches[i]: textNodes.slice(i, i + batchSize)
Batch(from) == { i \in Nodes : i >= from /\ i < from + batchSize }

\* this.originalContent.push({ node, text: node.textContent.trim() }) for
\* the nodes of a batch, in order
RECURSIVE PushOriginals(_, _, _)
PushOriginals(content, i, to) ==
    IF i > to \/ i > Len(PageTexts) THEN content
    ELSE PushOriginals(Append(content, [node |-> i, text |-> Trim(wp_nodes[i])]),
                       i + 1, to)

\* one batch of translateAllNodes up to its awaits: every node's original is
\* stored, the translatable ones wait for translateWithFallback
StartBatch(content, from) ==
    /\ wp_originalContent' = PushOriginals(content, from, from + batchSize - 1)
    /\ wp_pending' = { i \in Batch(from) : ~Skipped(Trim(wp_nodes[i])) }
    /\ wp_nextBatch' = from + batchSize

\* translatePage, called by toggleTranslation when the page is not
\* translated; one translation of the page at a time
TranslatePage ==
    /\ ~wp_isTranslated
    /\ ~wp_translating
    /\ wp_translating' = TRUE
    /\ StartBatch(<<>>, 1)
    /\ wp_before' = wp_nodes
    /\ wp_altered' = {}
    /\ UNCHANGED <<wp_nodes, wp_isTranslated>>
    /\ UNCHANGED twVars
    /\ UNCHANGED notWidget

\* translateAllNodes after `await this.translateWithFallback(originalText)`
\* for node i; kind is what the APIs had for a text that is not cached
NodeTranslated(i, kind) ==
    /\ i \in wp_pending
    /\ LET originalText == wp_originalContent[i].text
           hit == originalText \in DOMAIN tw_translationCache
           answer == ApiResult(kind, originalText)
           translated == IF hit THEN tw_translationCache[originalText]
                         ELSE IF answer # Null THEN answer ELSE originalText
       IN /\ tw_translationCache' =
                IF ~hit /\ answer # Null
                THEN [k \in DOMAIN tw_translationCache \cup {originalText} |->
                        IF k = originalText THEN answer
                        ELSE tw_translationCache[k]]
                ELSE tw_translationCache
          /\ IF translated # Null /\ translated # originalText
             THEN /\ wp_nodes' = [wp_nodes EXCEPT ![i] = translated]
                  /\ wp_altered' = wp_altered \cup {i}
             ELSE UNCHANGED <<wp_nodes, wp_altered>>
    /\ wp_pending' = wp_pending \ {i}
    /\ UNCHANGED <<wp_isTranslated, wp_originalContent, wp_translating,
                   wp_nextBatch, wp_before>>
    /\ UNCHANGED <<tw_currentAPIIndex, tw_calls, tw_ret>>
    /\ UNCHANGED notWidget

\* translateAllNodes after `await Promise.all(promises)`: the next batch, or
\* translatePage's `this.isTranslated = true`
BatchDone ==
    /\ wp_translating
    /\ wp_pending = {}
    /\ IF wp_nextBatch <= Len(PageTexts)
       THEN /\ StartBatch(wp_originalContent, wp_nextBatch)
            /\ UNCHANGED <<wp_isTranslated, wp_translating>>
       ELSE /\ wp_isTranslated' = TRUE
            /\ wp_translating' = FALSE
            /\ UNCHANGED <<wp_originalContent, wp_pending, wp_nextBatch>>
    /\ UNCHANGED <<wp_nodes, wp_before, wp_altered>>
    /\ UNCHANGED twVars
    /\ UNCHANGED notWidget

\* originalContent.forEach(item => { if (item.node && item.node.parentElement
\* && item.text) item.node.textContent = item.text })
RECURSIVE RestoreAll(_, _)
RestoreAll(nodes, content) ==
    IF content = <<>> THEN nodes
    ELSE LET item == Head(content)
         IN RestoreAll(IF item.text # <<>>
                       THEN [nodes EXCEPT ![item.node] = item.text]
                       ELSE nodes,
                       Tail(content))

\* revertTranslation, called by toggleTranslation when the page is translated
RevertTranslation ==
    /\ wp_isTranslated
    /\ wp_nodes' = RestoreAll(wp_nodes, wp_originalContent)
    /\ wp_isTranslated' = FALSE
    /\ wp_originalContent' = <<>>
    /\ tw_translationCache' = <<>>
    /\ UNCHANGED <<wp_translating, wp_pending, wp_nextBatch, wp_before,
                   wp_altered>>
    /\ UNCHANGED <<tw_currentAPIIndex, tw_calls, tw_ret>>
    /\ UNCHANGED notWidget

NextWP ==
    \/ TranslatePage
    \/ \E i \in Nodes : \E kind \in ApiResults : NodeTranslated(i, kind)
    \/ BatchDone
    \/ RevertTranslation

\* ---------------------------------------------------------------------
\* AIPracticeMode (src/unnamed/part_000): the session counters
\* ---------------------------------------------------------------------
MaxQuestions == 3
MaxChecks == 2

\* getUserAnswer(): '' when nothing was entered
Answers == { "", "answer" }

\* the lines of the AI's reply that getAIFeedback reads: CORRECT: (yes, no,
\* or no such line) and SCORE: (a number, or -1 for no number)
FeedbackReplies ==
    [correct : {"yes", "no", "absent"}, score : {-1, 0, 79, 80, 100}]

\* getAIFeedback: the feedback object parsed from the reply
ParseFeedback(reply) ==
    [correct |-> reply.correct = "yes",
     score |-> IF reply.score < 0 THEN 0 ELSE reply.score]

\* displayFeedback: const isCorrect = feedback.correct || feedback.score >= 80
FeedbackTitle(feedback) ==
    IF feedback.correct \/ feedback.score >= 80 THEN "Great job!"
    ELSE "Not quite right"

NoCheck == [n |-> 0, outcome |-> "none", questions |-> 0, score |-> 0,
            title |-> ""]

InitAP ==
    /\ ap_sessionScore = 0
    /\ ap_sessionQuestions = 0
    /\ ap_button = "check"
    /\ ap_feedbackArea = ""
    /\ ap_checks = 0
    /\ ap_last = NoCheck

\* startPractice up to generateQuestion's await (resetButtons included)
StartPractice ==
    /\ ap_sessionScore' = 0
    /\ ap_sessionQuestions' = 0
    /\ ap_button' = "check"
    /\ ap_feedbackArea' = ""
    /\ UNCHANGED <<ap_checks, ap_last>>
    /\ UNCHANGED notAP

\* nextQuestion up to generateQuestion's await
NextQuestion ==
    /\ ap_button = "next"
    /\ ap_button' = "check"
    /\ ap_feedbackArea' = ""
    /\ UNCHANGED <<ap_sessionScore, ap_sessionQuestions, ap_checks, ap_last>>
    /\ UNCHANGED notAP

\* checkAnswer up to `await this.getAIFeedback(userAnswer)`
CheckAnswer(userAnswer) ==
    /\ ap_button = "check"
    /\ IF userAnswer = ""
       THEN /\ ap_feedbackArea' = "Please provide an answer first!"
            /\ ap_last' = [n |-> Flip(ap_last.n), outcome |-> "empty",
                           questions |-> 0, score |-> 0,
                           title |-> "Please provide an answer first!"]
            /\ UNCHANGED <<ap_button, ap_checks>>
       ELSE /\ ap_checks < MaxChecks
            /\ ap_button' = "disabled"
            /\ ap_checks' = ap_checks + 1
            /\ UNCHANGED <<ap_feedbackArea, ap_last>>
    /\ UNCHANGED <<ap_sessionScore, ap_sessionQuestions>>
    /\ UNCHANGED notAP

\* checkAnswer after getAIFeedback returned: displayFeedback and the
\* session statistics
GetAIFeedbackDone(reply) ==
    /\ ap_checks > 0
    /\ ap_sessionQuestions < MaxQuestions
    /\ LET feedback == ParseFeedback(reply)
           scored == IF feedback.correct THEN 1 ELSE 0
       IN /\ ap_feedbackArea' = FeedbackTitle(feedback)
          /\ ap_sessionQuestions' = ap_sessionQuestions + 1
          /\ ap_sessionScore' = ap_sessionScore + scored
          /\ ap_last' = [n |-> Flip(ap_last.n), outcome |-> "feedback",
                         questions |-> 1, score |-> scored,
                         title |-> FeedbackTitle(feedback)]
    /\ ap_checks' = ap_checks - 1
    /\ ap_button' = "next"
    /\ UNCHANGED notAP

\* checkAnswer's catch: getAIFeedback threw
GetAIFeedbackFailed ==
    /\ ap_checks > 0
    /\ ap_checks' = ap_checks - 1
    /\ ap_feedbackArea' = "Failed to check answer. Try again."
    /\ ap_button' = "check"
    /\ ap_last' = [n |-> Flip(ap_last.n), outcome |-> "failed",
                   questions |-> 0, score |-> 0,
                   title |-> "Failed to check answer. Try again."]
    /\ UNCHANGED <<ap_sessionScore, ap_sessionQuestions>>
    /\ UNCHANGED notAP

NextAP ==
    \/ StartPractice
    \/ NextQuestion
    \/ \E userAnswer \in Answers : CheckAnswer(userAnswer)
    \/ \E reply \in FeedbackReplies : GetAIFeedbackDone(reply)
    \/ GetAIFeedbackFailed

\* ---------------------------------------------------------------------
\* LearningEngine.updateLessonCompletion / initializeUserJourney
\* (src/unnamed/part_000): the Firestore document userJourneys/<userId>,
\* one user and one module
\* ---------------------------------------------------------------------
MaxUpdates == 2

LessonIds == { "lesson1", "lesson2" }

TimesSpent == { 5, 7 }

\* getModuleLessons(module, targetLanguage).length
TotalLessons == 4

NoJourney == [exists |-> FALSE]

\* initializeUserJourney: the module's entry and totalTimeSpent of journeyData
NewJourney ==
    [exists |-> TRUE, lessonsCompleted |-> <<>>, progress |-> 0,
     totalTimeSpent |-> 0]

Includes(list, x) == \E k \in 1..Len(list) : list[k] = x

\* Math.round((completedCount / totalLessons) * 100)
ModuleProgress(completedCount) ==
    (200 * completedCount + TotalLessons) \div (2 * TotalLessons)

InitLJ ==
    /\ lj_doc = NoJourney
    /\ lj_calls = <<>>
    /\ lj_version = 0
    /\ lj_started = 0
    /\ lj_returned = {}

\* updateLessonCompletion(userId, module, lessonId, score, timeSpent) up to
\* `await getDoc(journeyRef)`
UpdateLessonCompletion(lessonId, timeSpent) ==
    /\ lj_started < MaxUpdates
    /\ lj_started' = lj_started + 1
    /\ lj_calls' = Append(lj_calls,
                          [lessonId |-> lessonId, timeSpent |-> timeSpent,
                           pc |-> "getDoc", read |-> 0, updates |-> NoJourney])
    /\ UNCHANGED <<lj_doc, lj_version, lj_returned>>
    /\ UNCHANGED notLJ

\* the updates object built from the journey document that was read
Updates(journeyData, lessonId, timeSpent) ==
    LET lessonsCompleted ==
            IF ~Includes(journeyData.lessonsCompleted, lessonId)
            THEN Append(journeyData.lessonsCompleted, lessonId)
            ELSE journeyData.lessonsCompleted
    IN [exists |-> TRUE,
        lessonsCompleted |-> lessonsCompleted,
        progress |-> ModuleProgress(Len(lessonsCompleted)),
        totalTimeSpent |-> journeyData.totalTimeSpent + timeSpent]

\* after `await getDoc(journeyRef)`: to initializeUserJourney when there is
\* no document, else up to `await updateDoc(journeyRef, updates)`
JourneyGetDocDone(i, ok) ==
    /\ i \in 1..Len(lj_calls)
    /\ lj_calls[i].pc = "getDoc"
    /\ lj_calls' =
          IF ~ok THEN RemoveAt(lj_calls, i)
          ELSE IF ~lj_doc.exists
          THEN [lj_calls EXCEPT ![i].pc = "initializeUserJourney"]
          ELSE [lj_calls EXCEPT
                    ![i].pc = "updateDoc",
                    ![i].read = lj_version,
                    ![i].updates = Updates(lj_doc, lj_calls[i].lessonId,
                                           lj_calls[i].timeSpent)]
    /\ UNCHANGED <<lj_doc, lj_version, lj_started, lj_returned>>
    /\ UNCHANGED notLJ

\* initializeUserJourney after its `await getDoc(journeyRef)`; with a
\* document it returns and updateLessonCompletion retries
InitializeUserJourneyGetDocDone(i, ok) ==
    /\ i \in 1..Len(lj_calls)
    /\ lj_calls[i].pc = "initializeUserJourney"
    /\ lj_calls' =
          IF ~ok THEN RemoveAt(lj_calls, i)
          ELSE IF lj_doc.exists THEN [lj_calls EXCEPT ![i].pc = "getDoc"]
          ELSE [lj_calls EXCEPT ![i].pc = "setDoc"]
    /\ UNCHANGED <<lj_doc, lj_version, lj_started, lj_returned>>
    /\ UNCHANGED notLJ

\* initializeUserJourney after `await setDoc(journeyRef, journeyData)`, and
\* the retry of updateLessonCompletion up to its getDoc
InitializeUserJourneySetDocDone(i, ok) ==
    /\ i \in 1..Len(lj_calls)
    /\ lj_calls[i].pc = "setDoc"
    /\ IF ok
       THEN /\ lj_doc' = NewJourney
            /\ lj_version' = lj_version + 1
            /\ lj_calls' = [lj_calls EXCEPT ![i].pc = "getDoc"]
       ELSE /\ lj_calls' = RemoveAt(lj_calls, i)
            /\ UNCHANGED <<lj_doc, lj_version>>
    /\ UNCHANGED <<lj_started, lj_returned>>
    /\ UNCHANGED notLJ

\* after `await updateDoc(journeyRef, updates)`: the fields named in updates
\* are replaced and the call returns success
UpdateDocDone(i, ok) ==
    /\ i \in 1..Len(lj_calls)
    /\ lj_calls[i].pc = "updateDoc"
    /\ lj_calls' = RemoveAt(lj_calls, i)
    /\ IF ok
       THEN /\ lj_doc' = lj_calls[i].updates
            /\ lj_version' = lj_version + 1
            /\ lj_returned' = lj_returned \cup
                    { [lessonId |-> lj_calls[i].lessonId,
                       timeSpent |-> lj_calls[i].timeSpent,
                       read |-> lj_calls[i].read] }
       ELSE UNCHANGED <<lj_doc, lj_version, lj_returned>>
    /\ UNCHANGED lj_started
    /\ UNCHANGED notLJ

NextLJ ==
    \/ \E lessonId \in LessonIds : \E timeSpent \in TimesSpent :
            UpdateLessonCompletion(lessonId, timeSpent)
    \/ \E i \in 1..MaxUpdates : \E ok \in BOOLEAN : JourneyGetDocDone(i, ok)
    \/ \E i \in 1..MaxUpdates : \E ok \in BOOLEAN :
            InitializeUserJourneyGetDocDone(i, ok)
    \/ \E i \in 1..MaxUpdates : \E ok \in BOOLEAN :
            InitializeUserJourneySetDocDone(i, ok)
    \/ \E i \in 1..MaxUpdates : \E ok \in BOOLEAN : UpdateDocDone(i, ok)

\* ---------------------------------------------------------------------
\* Specifications: one per object, the other objects standing still
\* ---------------------------------------------------------------------
Init ==
    /\ InitTranslator
    /\ InitPM
    /\ InitDict
    /\ InitPT
    /\ InitAI
    /\ InitTW
    /\ InitUP
    /\ InitWP
    /\ InitAP
    /\ InitLJ

SpecTranslator == Init /\ [][NextTranslator]_vars

SpecPM == Init /\ [][NextPM]_vars

SpecDict == Init /\ [][NextDict]_vars

SpecPT == Init /\ [][NextPT]_vars

SpecAI == Init /\ [][NextAI]_vars

SpecTW == Init /\ [][NextTW]_vars

SpecProfile == Init /\ [][NextUP]_vars

SpecPage == Init /\ [][NextWP]_vars

SpecPractice == Init /\ [][NextAP]_vars

SpecJourney == Init /\ [][NextLJ]_vars

InitAnyProgress ==
    /\ InitTranslator
    /\ InitPM
    /\ InitDict
    /\ InitOverall
    /\ InitAI
    /\ InitTW
    /\ InitUP
    /\ InitWP
    /\ InitAP
    /\ InitLJ

SpecOverall == InitAnyProgress /\ [][NextOverall]_vars

\* ---------------------------------------------------------------------
\* Properties
\* ---------------------------------------------------------------------
Injective(s) == \A i, j \in DOMAIN s : i # j => s[i] # s[j]

BatchCase ==
    /\ translator_batch.state = "resolved"
    /\ Len(translator_batch.texts) >= 2
    /\ Injective(translator_batch.texts)
    /\ translator_batch.uncached
    /\ ~translator_batch.apiFailed

\* C1: a translateBatch of two or more distinct, non-empty, uncached texts
\* whose API requests all succeeded resolves to one result per text, in
\* input order, each the API's translation of its text and none the error
\* fallback.
C1_BatchTranslatesEveryText ==
    BatchCase =>
        /\ Len(translator_batch.results) = Len(translator_batch.texts)
        /\ \A i \in DOMAIN translator_batch.texts :
            LET r == translator_batch.results[i] IN
            /\ r.original = translator_batch.texts[i]
            /\ ~r.error
            /\ r.confidence # 0
            /\ translator_batch.answers[i] # None
            /\ r.translated = Trim(StripQuotes(translator_batch.answers[i]))

\* C2: loadPage puts a page that requires authentication into the content
\* area only while authManager.isAuthenticated() is true, whoever
\* triggered the load (navigateTo, goBack, popstate).
C2_ProtectedPagesLoadAuthenticated ==
    (pm_lastLoad # NoLoad /\ requiresAuthentication(pm_lastLoad.page))
        => pm_lastLoad.authenticated

\* C3, for the lookup call of a step: its key, and the age of the entry
\* the cache holds under that key
LookupStep == dict_ret'.n # dict_ret.n /\ dict_ret'.key # None
SettleStep == dict_last'.n # dict_last.n
EntryAge(key) == dict_now - dict_cache[key].timestamp

\* C3 as stated: the stored result without a query; an expired entry
\* deleted and the word queried again; nothing stored by a failing lookup,
\* and the next lookup of its key queries the AI.
C3_StepAsStated ==
    /\ LookupStep =>
        LET key == dict_ret'.key IN
        /\ (key \in DOMAIN dict_cache /\ EntryAge(key) < cacheExpiry) =>
              /\ dict_ret'.outcome = "cached"
              /\ dict_ret'.result = dict_cache[key].data
              /\ UNCHANGED <<dict_pending, dict_isProcessing, dict_cache>>
        /\ (key \in DOMAIN dict_cache /\ EntryAge(key) > cacheExpiry) =>
              /\ key \notin DOMAIN dict_cache'
              /\ dict_ret'.outcome = "fetching"
              /\ dict_pending # dict_pending' /\ dict_pending'.key = key
        /\ (dict_last.outcome = "failed" /\ dict_last.key = key) =>
              /\ dict_ret'.outcome = "fetching"
              /\ dict_pending'.key = key
    /\ (SettleStep /\ dict_last'.outcome = "failed") =>
        \A k \in DOMAIN dict_cache' : k \in DOMAIN dict_cache /\ dict_cache'[k] = dict_cache[k]

C3_Step ==
    /\ LookupStep =>
        LET key == dict_ret'.key IN
        /\ (key \in DOMAIN dict_cache /\ EntryAge(key) < cacheExpiry) =>
              /\ dict_ret'.outcome = "cached"
              /\ dict_ret'.result = dict_cache[key].data
              /\ UNCHANGED <<dict_pending, dict_isProcessing, dict_cache>>
        /\ (key \in DOMAIN dict_cache /\ EntryAge(key) > cacheExpiry) =>
              /\ key \notin DOMAIN dict_cache'
              /\ dict_ret'.outcome = IF dict_isProcessing THEN "busy" ELSE "fetching"
              /\ ~dict_isProcessing =>
                    dict_pending # dict_pending' /\ dict_pending'.key = key
              /\ dict_isProcessing => UNCHANGED <<dict_pending, dict_isProcessing>>
        /\ (dict_last.outcome = "failed" /\ dict_last.key = key) =>
              /\ dict_ret'.outcome = IF dict_isProcessing THEN "busy" ELSE "fetching"
              /\ ~dict_isProcessing => dict_pending'.key = key
    /\ (SettleStep /\ dict_last'.outcome = "failed") =>
        \A k \in DOMAIN dict_cache' : k \in DOMAIN dict_cache /\ dict_cache'[k] = dict_cache[k]

MeanQuarters ==
    pt_modules["alphabets"].progress + pt_modules["vocabulary"].progress
        + pt_modules["grammar"].progress + pt_modules["assessment"].progress

\* p is the integer nearest to q / 4, a half going up
NearestHalfUp(p, q) == 4 * p <= q + 2 /\ q + 2 < 4 * p + 4

\* C4: the percentage of the progress bar and that of the menu are the
\* mean of the four progress values rounded to the nearest integer, halves
\* up; they are in 0..100 when every progress value is; they are equal.
C4_OverallPercentage ==
    /\ pt_progressText # -1 =>
          /\ NearestHalfUp(pt_progressText, MeanQuarters)
          /\ (\A k \in ModuleNames : pt_modules[k].progress \in 0..100)
                => pt_progressText \in 0..100
    /\ pt_menu # -1 =>
          /\ NearestHalfUp(pt_menu, MeanQuarters)
          /\ (\A k \in ModuleNames : pt_modules[k].progress \in 0..100)
                => pt_menu \in 0..100
    /\ updateProgressBar(pt_modules) = generateMenuHTML(pt_modules)

\* both displays show 13 for a mean of 12.5
C4_Witness ==
    /\ MeanQuarters = 50
    /\ pt_progressText = 13
    /\ pt_menu = 13

\* C6
OpBegins == pt_op'.n # pt_op.n
OpCompletes == pt_op'.pc = "done" /\ (OpBegins \/ pt_op.pc = "setDoc")

\* the in-memory modules as the call changes them
ModulesAsChanged(call) ==
    CASE call.op = "markComplete" ->
            [pt_modules EXCEPT ![call.moduleName] = [completed |-> TRUE, progress |-> 100]]
      [] call.op = "resetProgress" -> NewModules
      [] call.op = "updateModuleProgress" ->
            [pt_modules EXCEPT ![call.moduleName] =
                [completed |-> (call.percentage >= 100 \/ pt_modules[call.moduleName].completed),
                 progress |-> IF call.percentage > 100 THEN 100
                              ELSE IF call.percentage < 0 THEN 0 ELSE call.percentage]]

C6_Step ==
    /\ (OpBegins /\ pt_op'.changed) =>
          /\ pt_modules' = ModulesAsChanged(pt_op')
          /\ pt_session' = Stringify(pt_modules')
    /\ OpCompletes => pt_op'.result = "returned"
    /\ (OpCompletes /\ ~OpBegins) => pt_session' = pt_session
    /\ (OpBegins /\ pt_op'.op # "resetProgress" /\ pt_op'.moduleName \in ModuleNames)
          => pt_op'.changed

C8_NewUserStartsAtZero ==
    \A i \in DOMAIN pt_loads :
        (/\ pt_loads[i].pc = "setDoc"
         /\ pt_loads[i].origin = "auth"
         /\ pt_loads[i].recorded)
            => pt_loads[i].data = NewModules

\* C10: initialize sets initialized, returns true when the progress came
\* from Firestore and false when Firestore failed and the local fallback
\* was used.
C10_InitializeResult ==
    pt_init.pc = "done" =>
        /\ pt_initialized
        /\ pt_init.source = "firestore" => pt_init.ret = TRUE
        /\ pt_init.source = "local_error" => pt_init.ret = FALSE

\* C7: at most one provider query of sendMessage is in flight; a call made
\* while isProcessing returns the 'still processing' message and changes
\* neither isProcessing nor conversationHistory nor the queries in flight;
\* isProcessing is false once an accepted call has completed, with a
\* response or with an error.
C7_Step ==
    /\ Len(ai_inflight') <= 1
    /\ Len(ai_inflight') > Len(ai_inflight) => (~ai_isProcessing /\ ai_isProcessing')
    /\ (ai_isProcessing /\ ai_ret'.n # ai_ret.n /\ ai_ret'.kind \notin {"response", "error"})
          => /\ ai_ret'.kind \in {"busy", "empty"}
             /\ UNCHANGED <<ai_isProcessing, ai_conversationHistory, ai_inflight>>
    /\ (ai_ret'.n # ai_ret.n /\ ai_ret'.kind \in {"response", "error", "unknown"})
          => ~ai_isProcessing'
    /\ ai_inflight' # <<>> => ai_isProcessing'

C9_TestConnectionReportsFailure ==
    /\ ai_testRet.outcome = "answered" => ai_testRet.success
    /\ ai_testRet.outcome = "failed" => ~ai_testRet.success
    /\ ai_testRet.after = ai_testRet.before

\* C5: the APIs in the order the claim has them tried: the one at
\* currentAPIIndex when the call began, then the others in list order
RECURSIVE Others(_, _)
Others(i, first) ==
    IF i >= NumAPIs THEN <<>>
    ELSE (IF i # first THEN <<i>> ELSE <<>>) \o Others(i + 1, first)

ClaimedOrder(first) == <<first>> \o Others(0, first)

\* C5: a cached text is returned without an API call; otherwise the API at
\* currentAPIIndex is tried first, the others in list order only if it
\* yields nothing or the unchanged text and only until one yields a
\* different text, whose index currentAPIIndex then is; the call resolves
\* to a non-empty string, the original text when no API yields a
\* translation; currentAPIIndex stays within 0..2.
C5_FallbackOrder ==
    /\ tw_currentAPIIndex \in 0..2
    /\ tw_ret.n # 0 \/ tw_ret.text # Null =>
        LET r == tw_ret
            k == Len(r.tried)
        IN /\ r.result # Null
           /\ r.cached => r.tried = <<>>
           /\ ~r.cached =>
                /\ k >= 1
                /\ k <= NumAPIs
                /\ r.tried = SubSeq(ClaimedOrder(r.first), 1, k)
                /\ (k < NumAPIs) => Yields(r.last, r.text)
                /\ Yields(r.last, r.text) =>
                        r.result = r.last /\ (k > 1 => r.index = r.tried[k])
                /\ ~Yields(r.last, r.text) => r.result = r.text

\* C11: after navigateTo has visited p1 .. pn, the k-th successive goBack
\* (k < n) makes currentPage p(n-k).
C11_GoBackWalksBack ==
    LET n == Len(pm_lastLoad.visited)
        k == pm_lastLoad.backs
    IN (pm_lastLoad.trigger = "goBack" /\ k >= 1 /\ k < n)
          => pm_currentPage = pm_lastLoad.visited[n - k]

\* C12: the default profile (createUserProfile) is written only when the
\* user has no profile document; a document that exists is never overwritten
\* with the defaults.
C12_DefaultsOnlyWhenNoDocument ==
    up_lastWrite.op = "createUserProfile" => ~up_lastWrite.existed

\* C13: a completed initializeModules only adds the modules map: modules the
\* local userProfile already had are kept, and profileComplete and every
\* other field of the local userProfile and of the user's Firestore document
\* keep the values they had.
C13_Step ==
    (up_lastWrite'.n # up_lastWrite.n /\ up_lastWrite'.op = "initializeModules"
        /\ up_doc.exists /\ up_userProfile # NoProfile)
    => /\ up_userProfile'.modules = ModulesOrDefault(up_userProfile)
       /\ up_userProfile'.profileComplete = up_userProfile.profileComplete
       /\ up_userProfile'.language = up_userProfile.language
       /\ up_doc'.profileComplete = up_doc.profileComplete
       /\ up_doc'.language = up_doc.language

C13_InitializeModulesOnlyAddsModules == [][C13_Step]_vars

\* C16: whenever Firebase reports that no user is signed in, its first
\* report after page load included, handleUnauthenticatedNavigation runs:
\* with a protected current page the report ends in the redirect to the
\* auth page.
C16_Step ==
    (fb_pendingReport /\ ~fb_pendingReport' /\ fb_user = NoUser
        /\ requiresAuthentication(pm_currentPage))
    => pm_location' = "botinteraction.html"

C16_NoUserReportRedirects == [][C16_Step]_vars

\* C14: revertTranslation after a completed translatePage leaves every text
\* node the translation altered with exactly the text it had before,
\* leading and trailing whitespace included, isTranslated false, and
\* originalContent and translationCache empty.
C14_Step ==
    (wp_isTranslated /\ ~wp_isTranslated')
    => /\ \A i \in wp_altered : wp_nodes'[i] = wp_before[i]
       /\ wp_originalContent' = <<>>
       /\ tw_translationCache' = <<>>

C14_RevertRestoresPage == [][C14_Step]_vars

\* C15: in a practice session 0 <= sessionScore <= sessionQuestions; a
\* checkAnswer that obtained feedback for a non-empty answer adds exactly 1
\* to sessionQuestions and adds 1 to sessionScore exactly when the feedback
\* is shown as correct ('Great job!'); an empty answer or a failed feedback
\* request changes neither counter.
C15_SessionCounters ==
    /\ 0 <= ap_sessionScore
    /\ ap_sessionScore <= ap_sessionQuestions
    /\ ap_last.outcome = "feedback" =>
          /\ ap_last.questions = 1
          /\ ap_last.score = 1 <=> ap_last.title = "Great job!"
          /\ ap_last.score \in {0, 1}
    /\ ap_last.outcome \in {"empty", "failed"} =>
          ap_last.questions = 0 /\ ap_last.score = 0

\* C17: when two updateLessonCompletion calls for different lessons of the
\* same user and module both read the journey document before either
\* wrote, and both returned, the stored lessonsCompleted contains both
\* lessonIds, the module progress counts both, and totalTimeSpent includes
\* both times.
C17_OverlappingCompletionsBothStored ==
    \A a, b \in lj_returned :
        (a.lessonId # b.lessonId /\ a.read = b.read)
        => /\ Includes(lj_doc.lessonsCompleted, a.lessonId)
           /\ Includes(lj_doc.lessonsCompleted, b.lessonId)
           /\ lj_doc.progress >= ModuleProgress(2)
           /\ lj_doc.totalTimeSpent >= a.timeSpent + b.timeSpent

====
